---- MODULE Spec2Model ----
(***************************************************************************)
(* A model of the scavenger scheduler: the JSON task store with its        *)
(* advisory file lock, the history store, the Scheduler control loop       *)
(* (recovery, admission, run_next_task, interruptible wait, stop and       *)
(* force_stop), the daemon process that hosts it, and the manual `run`     *)
(* command that shares the task store with the daemon.                     *)
(*                                                                         *)
(* The specifications:                                                    *)
(*   SpecStore  N independent processes calling the claim operations of    *)
(*              TaskStorage, with the lock / load / save / release steps   *)
(*              of each call as separate steps.                            *)
(*   Spec       one daemon process (Scheduler loop, signal handlers), one  *)
(*              manual `run` process and an operator adding and removing   *)
(*              tasks.  A locked read-modify-write of the task store is    *)
(*              one step; unlocked reads are steps of their own.           *)
(*   SpecAdmission, SpecSelect  single calls of the admission functions    *)
(*              and of the selection functions over drawn inputs.          *)
(*   SpecLoop   the Scheduler loop with every point where a call raises.   *)
(*   SpecFile   safe_json_load and safe_json_save on one file, step by     *)
(*              step, with crashes and corrupted contents.                 *)
(*   SpecNotify one call of ConfigStorage.save with its notification.      *)
(*   SpecOps    sequences of whole TaskStorage operations.                 *)
(*   SpecDaemon Daemon.start, the signals that reach the daemon process    *)
(*              and Daemon.stop, around the PID file.                      *)
(*   SpecMut    two processes calling the mutators of TaskStorage, lock,   *)
(*              load, save and release as separate steps; SpecMutFair adds *)
(*              weak fairness of each process's steps.                     *)
(*   SpecHistory  concurrent calls of HistoryStorage.record_execution.     *)
(*   SpecPid    concurrent Daemon.start calls and Daemon.stop on one PID   *)
(*              file.                                                      *)
(*   SpecProgress  the daemon loop left to itself, with admission granted  *)
(*              and weak fairness of its steps.                            *)
(***************************************************************************)
EXTENDS Integers, Sequences, FiniteSets, TLC

(* ------------------------------ bounds -------------------------------- *)

\* Task ids are 1..MaxTasks (uuid4 tokens in the code: never reused).
MaxTasks == 2
\* How many times the daemon process is started.
MaxStarts == 1
\* How many manual `run` commands are issued.
MaxManualRuns == 1
\* Ticks of the graceful-stop wait (MAX_TASK_WAIT_SECONDS, scaled down).
MaxTaskWait == 1
\* Ticks of the inter-iteration wait (check_interval, scaled down).
CheckInterval == 2
\* Concurrent callers of the claim operations in SpecStore.
NumCallers == 3
\* Tasks in the store of SpecSelect.
SelTasks == 4
\* Seconds the clock of SpecFile runs through after second 0.
MaxClock == 1
\* Saves begun in SpecFile.
MaxSaves == 2
\* Store operations in a run of SpecOps.
MaxOps == 3
\* Calls of record_execution in a run of SpecHistory.
MaxRecords == 3

(* ------------------------- program constants --------------------------- *)

MAX_CONSECUTIVE_ERRORS == 5
ERROR_PAUSE_MULTIPLIER == 5
DefaultUsageLimit == 20

Ids == 1..MaxTasks
Priorities == {1, 2}
\* In Spec the priority of a task follows from its id: odd ids have the
\* lower priority 2, so that insertion order and priority order differ.
PriorityOf(i) == IF i % 2 = 1 THEN 2 ELSE 1
Callers == 1..NumCallers

PENDING == "pending"
RUNNING == "running"
COMPLETED == "completed"
FAILED == "failed"
PAUSED == "paused"

TaskStatus == {PENDING, RUNNING, COMPLETED, FAILED, PAUSED}

\* Reasons passed to Task.fail.
ErrInterrupted == "Task interrupted (daemon restart)"
ErrForced == "Forced shutdown"
ErrExec == "executor error"
ErrNone == "none"

(* ------------------------------- Task ---------------------------------- *)

\* Optional[Task] = None.
NoTask ==
    [id |-> 0, priority |-> 0, status |-> "none",
     started_at |-> FALSE, completed_at |-> FALSE, error |-> ErrNone]

\* Task(prompt=..., priority=p): a new task is pending with no timestamps.
NewTask(i, p) ==
    [id |-> i, priority |-> p, status |-> PENDING,
     started_at |-> FALSE, completed_at |-> FALSE, error |-> ErrNone]

Start(t) == [t EXCEPT !.status = RUNNING, !.started_at = TRUE]

Complete(t) == [t EXCEPT !.status = COMPLETED, !.completed_at = TRUE]

Fail(t, e) == [t EXCEPT !.status = FAILED, !.completed_at = TRUE, !.error = e]

(* ---------------------------- TaskStorage ------------------------------ *)

RECURSIVE InsertBeforeEqual(_, _)
\* A faulty InsertByPriority: t goes before the elements of its own priority.
InsertBeforeEqual(sorted, t) ==
    IF sorted = <<>> THEN <<t>>
    ELSE IF Head(sorted).priority < t.priority
         THEN <<Head(sorted)>> \o InsertBeforeEqual(Tail(sorted), t)
         ELSE <<t>> \o sorted

RECURSIVE InsertByPriority(_, _)
\* One insertion of a stable sort: t goes after every element whose
\* priority is <= its own.
InsertByPriority(sorted, t) ==
    IF sorted = <<>> THEN <<t>>
    ELSE IF Head(sorted).priority <= t.priority
         THEN <<Head(sorted)>> \o InsertByPriority(Tail(sorted), t)
         ELSE <<t>> \o sorted

RECURSIVE SortByPriority(_)
\* sorted(pending, key=lambda t: t.priority): stable.
SortByPriority(s) ==
    IF s = <<>> THEN <<>>
    ELSE InsertByPriority(SortByPriority(SubSeq(s, 1, Len(s) - 1)), s[Len(s)])

IsPending(t) == t.status = PENDING

ListPending(tasks) == SortByPriority(SelectSeq(tasks, IsPending))

\* A faulty get_next_pending: the last task of the sorted list.
GetNextPendingLast(tasks) ==
    IF ListPending(tasks) = <<>> THEN NoTask
    ELSE ListPending(tasks)[Len(ListPending(tasks))]

GetNextPending(tasks) ==
    IF ListPending(tasks) = <<>> THEN NoTask ELSE ListPending(tasks)[1]

HasId(tasks, i) == \E k \in 1..Len(tasks) : tasks[k].id = i

\* Index of the first task with id i (0 when there is none).
IndexOf(tasks, i) ==
    IF HasId(tasks, i)
    THEN CHOOSE k \in 1..Len(tasks) :
            /\ tasks[k].id = i
            /\ \A j \in 1..(k - 1) : tasks[j].id # i
    ELSE 0

\* A faulty UpdateTasks: only the task that was handed over is saved.
UpdateSavesOne(tasks, t) == IF HasId(tasks, t.id) THEN <<t>> ELSE tasks

\* A faulty UpdateTasks: a task that is not stored is added.
UpdateOrAppend(tasks, t) ==
    IF HasId(tasks, t.id)
    THEN [tasks EXCEPT ![IndexOf(tasks, t.id)] = t]
    ELSE Append(tasks, t)

\* The read-modify-write of update(): the first task with the id replaced.
UpdateTasks(tasks, t) ==
    IF HasId(tasks, t.id)
    THEN [tasks EXCEPT ![IndexOf(tasks, t.id)] = t]
    ELSE tasks

KeepNot(tasks, i) ==
    LET Keep(t) == t.id # i IN SelectSeq(tasks, Keep)

RemoveTasks(tasks, i) == KeepNot(tasks, i)

\* What remove() returns: len(tasks) < original_len.
RemoveReturns(tasks, i) == Len(KeepNot(tasks, i)) < Len(tasks)

AddTasks(tasks, t) == Append(tasks, t)

\* A faulty ClaimById: the status of the task is not looked at.
ClaimByIdAnyStatus(tasks, i) ==
    LET hit == {k \in 1..Len(tasks) : tasks[k].id = i}
    IN  IF hit = {}
        THEN [tasks |-> tasks, result |-> NoTask, saved |-> FALSE]
        ELSE LET k == CHOOSE x \in hit : \A y \in hit : x <= y
             IN  [tasks |-> [tasks EXCEPT ![k] = Start(tasks[k])],
                  result |-> Start(tasks[k]), saved |-> TRUE]

\* claim_by_id on the loaded list: the new list and the returned task.
ClaimById(tasks, i) ==
    LET hit == {k \in 1..Len(tasks) : tasks[k].id = i /\ tasks[k].status = PENDING}
    IN  IF hit = {}
        THEN [tasks |-> tasks, result |-> NoTask, saved |-> FALSE]
        ELSE LET k == CHOOSE x \in hit : \A y \in hit : x <= y
             IN  [tasks |-> [tasks EXCEPT ![k] = Start(tasks[k])],
                  result |-> Start(tasks[k]), saved |-> TRUE]

\* claim_next_pending on the loaded list.
ClaimNextPending(tasks) ==
    IF ListPending(tasks) = <<>>
    THEN [tasks |-> tasks, result |-> NoTask, saved |-> FALSE]
    ELSE LET t == Start(ListPending(tasks)[1])
         IN  [tasks |-> UpdateTasks(tasks, t), result |-> t, saved |-> TRUE]

StatusOf(tasks, i) ==
    IF HasId(tasks, i) THEN tasks[IndexOf(tasks, i)].status ELSE "absent"

(* --------------------------- HistoryStorage ---------------------------- *)

\* TaskExecution.from_task
FromTask(t) == [task_id |-> t.id, status |-> t.status, error |-> t.error]

\* record_execution: load today's history, append, save.
RecordExecution(h, t) == Append(h, FromTask(t))

(* ------------------------------- state --------------------------------- *)

VARIABLES
    store,          \* tasks.json: the list of tasks
    history,        \* today's history file: the list of executions
    next_id,        \* the next unused task id
    \* the daemon process and its Scheduler
    pc,             \* where the daemon's main thread is
    running,        \* Scheduler._running
    stopping,       \* Scheduler._stopping
    reload_config,  \* Scheduler._reload_config
    current_task,   \* id of Scheduler._current_task (0: None)
    task,           \* the Task object run_next_task holds
    consecutive_errors,
    wait_left,      \* iterations left of _wait_interruptible's loop
    rec_tasks,      \* _recover_interrupted_tasks: running tasks still to visit
    rec_seen,       \* ids of the running tasks the recovery loop has visited
    sr,             \* what should_run returned in this iteration
    usage,          \* the reading the usage oracle gave should_run
    now,            \* the wall-clock time should_run saw
    stop_pc,        \* where a caller of Scheduler.stop is
    stop_ticks,     \* seconds that caller has waited
    stop_requested, \* Scheduler.stop was called on this daemon's scheduler
    starts,         \* daemon starts so far
    sched_started,  \* ids of the tasks run_next_task has started
    \* the manual `run` command
    m_pc, m_task, m_runs,
    m_started,      \* ids of the tasks the `run` command has started
    \* SpecStore: callers of the claim operations
    lock,           \* holder of the flock on .tasks.lock (0: free)
    c_pc, c_op, c_tasks, c_res,
    req_id,         \* the id the callers pass to claim_by_id
    \* the configuration, and single calls of single operations
    config,         \* the Config that config_storage.load() returns
    called,         \* the operations called so far on the state drawn
    ret_active,     \* what is_active_now returned
    ret_limit,      \* what get_limit_for_today returned
    picked,         \* what successive selections from the store returned
    iter_errors,    \* consecutive_errors when the current iteration began
    \* one store file and the processes that load and save it
    kind,           \* which store the file belongs to
    file,           \* content of the store file
    tmp,            \* content of each process's temporary file
    backups,        \* content of the backup file of each timestamp
    clock,          \* the second datetime.now() is in
    f_lock,         \* holder of the flock of the store (0: free)
    f_pc,           \* where each process is in its operation
    f_data,         \* the data each process is saving
    loaded,         \* what safe_json_load returned to each process
    seen,           \* the bytes each process's last read got
    found,          \* unparseable contents some load has met
    saves,          \* saves begun so far
    \* one call of ConfigStorage.save
    pid_text,       \* what the daemon's PID file holds
    pid_proc,       \* what os.kill meets under the number in the PID file
    sigusr1,        \* hasattr(signal, "SIGUSR1")
    notify,         \* the notify argument
    disk_ok,        \* safe_json_save will succeed
    n_pc,           \* where the call is
    n_res,          \* how the call ended
    written,        \* config.json has been written
    probed,         \* os.kill(pid, 0) has returned
    sent,           \* SIGUSR1 has been sent
    \* one call of Daemon.start, the process it becomes, one Daemon.stop
    d_pc,           \* where Daemon.start, then the daemon process, is
    d_forked,       \* _daemonize has forked
    d_hook,         \* atexit.register(self._remove_pid) is done
    d_handlers,     \* the signal handlers are installed
    d_sched,        \* Scheduler() has been constructed
    d_stop,         \* the handler has called scheduler.stop()
    d_own,          \* the PID file holds what this process wrote
    s_pc,           \* where the call of Daemon.stop is
    \* the mutators of TaskStorage, step by step
    c_arg,          \* the id each caller's operation is about
    \* record_execution, step by step
    h_pc,           \* where each process's record_execution is
    h_load,         \* the DailyHistory each process has loaded
    h_exec,         \* the TaskExecution each process is recording
    h_totals,       \* total_completed and total_failed of today's file
    h_calls,        \* the executions of the calls that have returned
    \* two daemon processes and one Daemon.stop on one base directory
    p_pc,           \* where each daemon process is
    p_file,         \* the pid in the PID file, 0 for no file
    p_stop,         \* where the call of Daemon.stop is
    p_target        \* the pid that Daemon.stop has signalled

storeVars == <<store, history, next_id>>
schedVars == <<pc, running, stopping, reload_config, current_task, task,
               consecutive_errors, wait_left, rec_tasks, rec_seen, sr, usage, now,
               stop_pc, stop_ticks, stop_requested, starts, sched_started>>
manualVars == <<m_pc, m_task, m_runs, m_started>>
callerVars == <<lock, c_pc, c_op, c_tasks, c_res, req_id>>
unitVars == <<config, called, ret_active, ret_limit, picked>>
iterVars == <<iter_errors>>
progVars == <<storeVars, schedVars, manualVars, callerVars, unitVars, iterVars>>
fileVars == <<kind, file, tmp, backups, clock, f_lock, f_pc, f_data, loaded,
              seen, found, saves>>
notifyVars == <<pid_text, pid_proc, sigusr1, notify, disk_ok, n_pc, n_res,
                written, probed, sent>>
daemonVars == <<d_pc, d_forked, d_hook, d_handlers, d_sched, d_stop, d_own,
                s_pc>>
mutVars == <<c_arg>>
histVars == <<h_pc, h_load, h_exec, h_totals, h_calls>>
pidVars == <<p_pc, p_file, p_stop, p_target>>
extVars == <<fileVars, notifyVars, daemonVars, mutVars, histVars, pidVars>>
vars == <<progVars, extVars>>

\* Config(): the defaults of ActiveHours and UsageLimits.  The "HH:MM" ends
\* of the window are minutes since midnight; weekdays are 0 (mon) .. 6 (sun).
DefaultConfig ==
    [active_hours |-> [start |-> 60, end |-> 360],
     limits |-> [usage_limit_by_day |-> [d \in 0..6 |-> DefaultUsageLimit],
                 usage_limit_default |-> DefaultUsageLimit,
                 usage_reset_hour |-> 6]]

(* ------------------------------ one file ------------------------------- *)

\* A file's content is the sequence of the chunks written to it; a path
\* with no file under it reads Absent.
Absent == <<"absent">>
\* What a process that has read nothing yet has seen.
Unread == <<"unread">>

\* The values a store file holds; DefaultData is the default that the store
\* passes to safe_json_load ([] for tasks.json, Config().model_dump() for
\* config.json).
DefaultData == "d0"
Data == {"d0", "d1", "d2"}

\* json.dump(data, f): the chunks it writes, in order.
Encode(d) == <<"[", d, "]">>

\* json.load(f) succeeds on a complete dump and on nothing else.
Parses(c) == \E d \in Data : c = Encode(d)
Decode(c) == CHOOSE d \in Data : c = Encode(d)

\* Contents that are not JSON: what an editor or a disk fault left behind.
Garbage == {<<"{">>, <<"}">>}

FileProcs == {1, 2}
Stamps == 0..MaxClock

\* No file operation is under way.
FilesIdle ==
    /\ kind = "tasks"
    /\ file = Absent
    /\ tmp = [p \in FileProcs |-> Absent]
    /\ backups = [t \in Stamps |-> Absent]
    /\ clock = 0
    /\ f_lock = 0
    /\ f_pc = [p \in FileProcs |-> "idle"]
    /\ f_data = [p \in FileProcs |-> DefaultData]
    /\ loaded = [p \in FileProcs |-> "none"]
    /\ seen = [p \in FileProcs |-> Unread]
    /\ found = {}
    /\ saves = 0

\* ConfigStorage.save is not called.
NotifyIdle ==
    /\ pid_text = "absent"
    /\ pid_proc = "none"
    /\ sigusr1 = TRUE
    /\ notify = TRUE
    /\ disk_ok = TRUE
    /\ n_pc = "idle"
    /\ n_res = "none"
    /\ written = FALSE
    /\ probed = FALSE
    /\ sent = FALSE

DaemonIdle ==
    /\ d_pc = "idle"
    /\ d_forked = FALSE
    /\ d_hook = FALSE
    /\ d_handlers = FALSE
    /\ d_sched = FALSE
    /\ d_stop = FALSE
    /\ d_own = FALSE
    /\ s_pc = "idle"

MutIdle == c_arg = [c \in Callers |-> 0]

\* DailyHistory(date=today): the default of a day without a file.
NoTotals == [total_completed |-> 0, total_failed |-> 0]
NoHistory == [executions |-> <<>>, totals |-> NoTotals]
NoExecution == [task_id |-> 0, status |-> "none", error |-> ErrNone]

HistIdle ==
    /\ h_pc = [p \in FileProcs |-> "idle"]
    /\ h_load = [p \in FileProcs |-> NoHistory]
    /\ h_exec = [p \in FileProcs |-> NoExecution]
    /\ h_totals = NoTotals
    /\ h_calls = <<>>

\* The processes that `scavenger daemon start` can become.
Daemons == {1, 2}

PidIdle ==
    /\ p_pc = [d \in Daemons |-> "idle"]
    /\ p_file = 0
    /\ p_stop = "idle"
    /\ p_target = 0

ExtIdle ==
    FilesIdle /\ NotifyIdle /\ DaemonIdle /\ MutIdle /\ HistIdle /\ PidIdle

(* --------------------------- initial states ---------------------------- *)

\* A task as an earlier run of the program left it in tasks.json.
StoredTask(i, p, s) ==
    [id |-> i, priority |-> p, status |-> s,
     started_at |-> s \in {RUNNING, COMPLETED, FAILED},
     completed_at |-> s \in {COMPLETED, FAILED},
     error |-> IF s = FAILED THEN ErrExec ELSE ErrNone]

\* The task lists of k tasks, ids 1..k in insertion order, statuses in S.
StoresOf(k, S) ==
    {[i \in 1..k |-> StoredTask(i, f[i][1], f[i][2])] :
        f \in [1..k -> Priorities \X S]}

NumPending(tasks) == Len(SelectSeq(tasks, IsPending))

\* should_run has not run in this iteration.
NoResult == [ok |-> FALSE, reason |-> "none"]
NoUsage == [kind |-> "unqueried", session |-> 0, weekly |-> 0]
NoTime == [weekday |-> 0, hour |-> 0, minute |-> 0, second |-> 0]

\* No daemon process, no manual run, no caller.
ProcessesIdle ==
    /\ pc = "down"
    /\ running = FALSE
    /\ stopping = FALSE
    /\ reload_config = FALSE
    /\ current_task = 0
    /\ task = NoTask
    /\ consecutive_errors = 0
    /\ wait_left = 0
    /\ rec_tasks = <<>>
    /\ rec_seen = {}
    /\ sr = NoResult
    /\ usage = NoUsage
    /\ now = NoTime
    /\ stop_pc = "none"
    /\ stop_ticks = 0
    /\ stop_requested = FALSE
    /\ starts = 0
    /\ sched_started = {}
    /\ iter_errors = 0
    /\ m_pc = "idle"
    /\ m_task = NoTask
    /\ m_runs = 0
    /\ m_started = {}
    /\ lock = 0
    /\ c_pc = [c \in Callers |-> "idle"]
    /\ c_op = [c \in Callers |-> "none"]
    /\ c_tasks = [c \in Callers |-> <<>>]
    /\ c_res = [c \in Callers |-> NoTask]

\* No single operation has been called.
NothingCalled ==
    /\ called = {}
    /\ ret_active = FALSE
    /\ ret_limit = 0
    /\ picked = <<>>

(* ------------- SpecStore: concurrent callers of the claims ------------- *)

\* A faulty LockFree: a lock that excludes nobody.
LockFreeAlways(l) == TRUE

\* fcntl.flock(lock_fd, LOCK_EX) returns only while no other open file
\* description holds the lock.
LockFree(l) == l = 0

\* A store holding exactly one pending task; the callers of claim_by_id all
\* pass that task's id.
InitStore ==
    /\ \E k \in 1..MaxTasks :
         store \in {s \in StoresOf(k, TaskStatus) : NumPending(s) = 1}
    /\ history = <<>>
    /\ next_id = Len(store) + 1
    /\ req_id = GetNextPending(store).id
    /\ config = DefaultConfig
    /\ ProcessesIdle
    /\ NothingCalled
    /\ ExtIdle

\* A process calls claim_next_pending() or claim_by_id(req_id): it opens
\* the lock file.
CallClaim(c) ==
    /\ c_pc[c] = "idle"
    /\ \E op \in {"claim_next_pending", "claim_by_id"} :
         c_op' = [c_op EXCEPT ![c] = op]
    /\ c_pc' = [c_pc EXCEPT ![c] = "open"]
    /\ UNCHANGED <<extVars, unitVars, iterVars, storeVars, schedVars, manualVars, lock, c_tasks, c_res, req_id>>

\* A faulty AcquireLock: flock returns whoever holds the lock.
AcquireLockNoWait(c) ==
    /\ c_pc[c] = "open"
    /\ lock' = c
    /\ c_pc' = [c_pc EXCEPT ![c] = "locked"]
    /\ UNCHANGED <<extVars, unitVars, iterVars, storeVars, schedVars, manualVars, c_op, c_tasks, c_res, req_id>>

\* flock(LOCK_EX) returns.
AcquireLock(c) ==
    /\ c_pc[c] = "open"
    /\ LockFree(lock)
    /\ lock' = c
    /\ c_pc' = [c_pc EXCEPT ![c] = "locked"]
    /\ UNCHANGED <<extVars, unitVars, iterVars, storeVars, schedVars, manualVars, c_op, c_tasks, c_res, req_id>>

\* tasks = self._load_tasks()
LoadTasks(c) ==
    /\ c_pc[c] = "locked"
    /\ c_tasks' = [c_tasks EXCEPT ![c] = store]
    /\ c_pc' = [c_pc EXCEPT ![c] = "loaded"]
    /\ UNCHANGED <<extVars, unitVars, iterVars, storeVars, schedVars, manualVars, lock, c_op, c_res, req_id>>

\* The claim on the loaded list, and _save_tasks(tasks) when a task was
\* claimed.
SaveTasks(c) ==
    /\ c_pc[c] = "loaded"
    /\ LET r == IF c_op[c] = "claim_by_id"
                THEN ClaimById(c_tasks[c], req_id)
                ELSE ClaimNextPending(c_tasks[c])
       IN  /\ store' = IF r.saved THEN r.tasks ELSE store
           /\ c_res' = [c_res EXCEPT ![c] = r.result]
    /\ c_pc' = [c_pc EXCEPT ![c] = "saved"]
    /\ UNCHANGED <<extVars, unitVars, iterVars, history, next_id, schedVars, manualVars, lock, c_op, c_tasks, req_id>>

\* A faulty ReleaseLock: the call returns with the lock file open.
ReleaseLockKeeps(c) ==
    /\ c_pc[c] = "saved"
    /\ c_pc' = [c_pc EXCEPT ![c] = "done"]
    /\ UNCHANGED <<extVars, unitVars, iterVars, storeVars, schedVars, manualVars, lock, c_op, c_tasks, c_res, req_id>>

\* The with block ends: the lock file is closed and the call returns.
ReleaseLock(c) ==
    /\ c_pc[c] = "saved"
    /\ lock' = IF lock = c THEN 0 ELSE lock
    /\ c_pc' = [c_pc EXCEPT ![c] = "done"]
    /\ UNCHANGED <<extVars, unitVars, iterVars, storeVars, schedVars, manualVars, c_op, c_tasks, c_res, req_id>>

NextStore ==
    \E c \in Callers :
        \/ CallClaim(c)
        \/ AcquireLock(c)
        \/ LoadTasks(c)
        \/ SaveTasks(c)
        \/ ReleaseLock(c)

SpecStore == InitStore /\ [][NextStore]_vars

(* C1: N concurrent callers of claim_next_pending / claim_by_id(req_id)    *)
(* against a store with exactly one pending task: no task is returned to   *)
(* two callers, and once all N calls have returned exactly one of them     *)
(* returned the task, stored as running, and the other N-1 returned None.  *)
Returned(c) == c_pc[c] \in {"saved", "done"}

AllReturned == \A c \in Callers : c_pc[c] = "done"

C1_ExactlyOneClaim ==
    /\ \A i \in Ids :
         Cardinality({c \in Callers : Returned(c) /\ c_res[c].id = i}) <= 1
    /\ AllReturned =>
         \E c \in Callers :
            /\ c_res[c].id = req_id
            /\ c_res[c].status = RUNNING
            /\ StatusOf(store, req_id) = RUNNING
            /\ \A d \in Callers \ {c} : c_res[d] = NoTask

C1_Witness ==
    /\ AllReturned
    /\ \E c \in Callers : c_res[c].id = req_id
    /\ \E c, d \in Callers : c_op[c] = "claim_next_pending" /\ c_op[d] = "claim_by_id"

(* ------------------ admission: config, clock, oracle ------------------- *)

\* A time of day in seconds since midnight: datetime.time values compare
\* by hour, minute, second.
SecondsOf(t) == (t.hour * 60 + t.minute) * 60 + t.second

\* A faulty IsActiveNow: the window is never taken to span midnight.
IsActiveNowSameDay(ah, t) ==
    ah.start * 60 <= SecondsOf(t) /\ SecondsOf(t) <= ah.end * 60

\* ActiveHours.is_active_now at wall-clock time t.
IsActiveNow(ah, t) ==
    LET current_time == SecondsOf(t)
        start_time == ah.start * 60
        end_time == ah.end * 60
    IN  IF start_time <= end_time
        THEN start_time <= current_time /\ current_time <= end_time
        ELSE current_time >= start_time \/ current_time <= end_time

\* A faulty GetLimitForToday: the reset hour is not looked at.
GetLimitNoShift(lim, t) ==
    IF t.weekday \in DOMAIN lim.usage_limit_by_day
    THEN lim.usage_limit_by_day[t.weekday]
    ELSE lim.usage_limit_default

\* UsageLimits.get_limit_for_today at wall-clock time t.
GetLimitForToday(lim, t) ==
    LET day == IF t.hour < lim.usage_reset_hour
               THEN (t.weekday + 6) % 7
               ELSE t.weekday
    IN  IF day \in DOMAIN lim.usage_limit_by_day
        THEN lim.usage_limit_by_day[day]
        ELSE lim.usage_limit_default

\* A faulty IsValid: only the weekly percentage is looked at.
IsValidWeeklyOnly(u) == u.weekly >= 0

\* UsageInfo.is_valid
IsValid(u) == u.session >= 0 /\ u.weekly >= 0

\* UsageInfo.is_within_limit
IsWithinLimit(u, limit) == IF u.weekly < 0 THEN FALSE ELSE u.weekly < limit

ReasonStopping == "Scheduler is stopping"
ReasonInactive == "Outside active hours"
ReasonNoUsage == "Unable to fetch usage info, skipping task"
ReasonLimit == "Usage limit reached"
ReasonNoTasks == "No pending tasks"
ReasonReady == "Ready to run"

\* A faulty ShouldRun: the queue is looked at before the oracle is asked.
ShouldRunQueueFirst(stp, cfg, t, u, tasks) ==
    IF stp THEN [ok |-> FALSE, reason |-> ReasonStopping]
    ELSE IF ~IsActiveNow(cfg.active_hours, t)
    THEN [ok |-> FALSE, reason |-> ReasonInactive]
    ELSE IF GetNextPending(tasks) = NoTask
    THEN [ok |-> FALSE, reason |-> ReasonNoTasks]
    ELSE IF u.kind = "none" \/ ~IsValid(u)
    THEN [ok |-> FALSE, reason |-> ReasonNoUsage]
    ELSE IF ~IsWithinLimit(u, GetLimitForToday(cfg.limits, t))
    THEN [ok |-> FALSE, reason |-> ReasonLimit]
    ELSE [ok |-> TRUE, reason |-> ReasonReady]

\* Scheduler.should_run: stp is self._stopping, u what get_usage_simple
\* returned, tasks what the task store holds when get_next_pending reads it.
ShouldRun(stp, cfg, t, u, tasks) ==
    IF stp THEN [ok |-> FALSE, reason |-> ReasonStopping]
    ELSE IF ~IsActiveNow(cfg.active_hours, t)
    THEN [ok |-> FALSE, reason |-> ReasonInactive]
    ELSE IF u.kind = "none" \/ ~IsValid(u)
    THEN [ok |-> FALSE, reason |-> ReasonNoUsage]
    ELSE IF ~IsWithinLimit(u, GetLimitForToday(cfg.limits, t))
    THEN [ok |-> FALSE, reason |-> ReasonLimit]
    ELSE IF GetNextPending(tasks) = NoTask
    THEN [ok |-> FALSE, reason |-> ReasonNoTasks]
    ELSE [ok |-> TRUE, reason |-> ReasonReady]

\* Whether should_run gets as far as asking the oracle.
OracleAsked(stp, cfg, t) == ~stp /\ IsActiveNow(cfg.active_hours, t)

\* Wall-clock times should_run may see: inside and outside 01:00-06:00.
Times ==
    {[weekday |-> 0, hour |-> 3, minute |-> 0, second |-> 0],
     [weekday |-> 0, hour |-> 12, minute |-> 0, second |-> 0]}

UsageInfo(s, w) == [kind |-> "info", session |-> s, weekly |-> w]

\* What get_usage_simple may return: None, or percentages that are -1 when
\* they could not be read.
UsageReadings ==
    {[kind |-> "none", session |-> 0, weekly |-> 0],
     UsageInfo(-1, -1), UsageInfo(10, -1), UsageInfo(-1, 10),
     UsageInfo(10, 10), UsageInfo(10, 20)}

(* -------------------- Spec: the daemon and its peers ------------------- *)

IsRunning(t) == t.status = RUNNING

Alive == pc \notin {"down", "exited", "killed"}

\* A signal handler runs on the main thread: while Scheduler.stop waits
\* inside the handler the interrupted code does not advance.
MainRuns == Alive /\ stop_pc # "signal"

Init ==
    /\ \E k \in 0..MaxTasks :
         store \in {[i \in 1..k |-> StoredTask(i, PriorityOf(i), f[i])] :
                      f \in [1..k -> {PENDING, RUNNING}]}
    /\ history = <<>>
    /\ next_id = Len(store) + 1
    /\ req_id = 0
    /\ config = DefaultConfig
    /\ ProcessesIdle
    /\ NothingCalled
    /\ ExtIdle

\* The process is gone, and the Scheduler object with it.
SchedulerGone ==
    /\ running' = FALSE
    /\ stopping' = FALSE
    /\ reload_config' = FALSE
    /\ current_task' = 0
    /\ task' = NoTask
    /\ consecutive_errors' = 0
    /\ wait_left' = 0
    /\ rec_tasks' = <<>>
    /\ rec_seen' = {}
    /\ sr' = NoResult
    /\ usage' = NoUsage
    /\ now' = NoTime
    /\ stop_pc' = "none"
    /\ stop_ticks' = 0
    /\ stop_requested' = FALSE
    /\ iter_errors' = 0

\* Daemon.start: handlers installed, self.scheduler = Scheduler().
DaemonStart ==
    /\ ~Alive
    /\ starts < MaxStarts
    /\ starts' = starts + 1
    /\ pc' = "constructed"
    /\ sched_started' = {}
    /\ UNCHANGED <<extVars, unitVars, iterVars, storeVars, manualVars, callerVars, running, stopping,
                   reload_config, current_task, task, consecutive_errors,
                   wait_left, rec_tasks, rec_seen, sr, usage, now, stop_pc,
                   stop_ticks, stop_requested>>

\* run_loop, up to the call of _recover_interrupted_tasks.
RunLoopStart ==
    /\ MainRuns
    /\ pc = "constructed"
    /\ running' = TRUE
    /\ stopping' = FALSE
    /\ consecutive_errors' = 0
    /\ pc' = "recover_list"
    /\ UNCHANGED <<extVars, unitVars, iterVars, storeVars, manualVars, callerVars, reload_config,
                   current_task, task, wait_left, rec_tasks, rec_seen, sr,
                   usage, now, stop_pc, stop_ticks, stop_requested, starts,
                   sched_started>>

\* tasks = self.task_storage.list_all(); the loop acts on the running ones.
RecoverList ==
    /\ MainRuns
    /\ pc = "recover_list"
    /\ rec_tasks' = SelectSeq(store, IsRunning)
    /\ rec_seen' = {}
    /\ pc' = "recover"
    /\ UNCHANGED <<extVars, unitVars, iterVars, storeVars, manualVars, callerVars, running, stopping,
                   reload_config, current_task, task, consecutive_errors,
                   wait_left, sr, usage, now, stop_pc, stop_ticks,
                   stop_requested, starts, sched_started>>

\* A faulty Interrupted: recovery leaves the task as it found it.
InterruptedKeepsStatus(t) == t

\* task.fail("Task interrupted (daemon restart)")
Interrupted(t) == Fail(t, ErrInterrupted)

\* task.fail(...); self.task_storage.update(task)
RecoverUpdate ==
    /\ MainRuns
    /\ pc = "recover"
    /\ rec_tasks # <<>>
    /\ store' = UpdateTasks(store, Interrupted(Head(rec_tasks)))
    /\ rec_tasks' = <<Interrupted(Head(rec_tasks))>> \o Tail(rec_tasks)
    /\ pc' = "recover_record"
    /\ UNCHANGED <<extVars, unitVars, iterVars, history, next_id, manualVars, callerVars, running, stopping,
                   reload_config, current_task, task, consecutive_errors,
                   wait_left, rec_seen, sr, usage, now, stop_pc, stop_ticks,
                   stop_requested, starts, sched_started>>

\* self.history_storage.record_execution(task), and on to the next task.
RecoverRecord ==
    /\ MainRuns
    /\ pc = "recover_record"
    /\ history' = RecordExecution(history, Head(rec_tasks))
    /\ rec_seen' = rec_seen \cup {Head(rec_tasks).id}
    /\ rec_tasks' = Tail(rec_tasks)
    /\ pc' = "recover"
    /\ UNCHANGED <<extVars, unitVars, iterVars, store, next_id, manualVars, callerVars, running, stopping,
                   reload_config, current_task, task, consecutive_errors,
                   wait_left, sr, usage, now, stop_pc, stop_ticks,
                   stop_requested, starts, sched_started>>

\* The recovery loop is over: run_loop reaches its while.
RecoverDone ==
    /\ MainRuns
    /\ pc = "recover"
    /\ rec_tasks = <<>>
    /\ pc' = "loop_top"
    /\ UNCHANGED <<extVars, unitVars, iterVars, storeVars, manualVars, callerVars, running, stopping,
                   reload_config, current_task, task, consecutive_errors,
                   wait_left, rec_tasks, rec_seen, sr, usage, now, stop_pc,
                   stop_ticks, stop_requested, starts, sched_started>>

\* while self._running fails: run_loop returns, Daemon.start returns, the
\* process exits.
LoopExit ==
    /\ MainRuns
    /\ pc = "loop_top"
    /\ ~running
    /\ pc' = "exited"
    /\ SchedulerGone
    /\ UNCHANGED <<extVars, unitVars, storeVars, manualVars, callerVars, starts, sched_started>>

\* A faulty CooldownSeconds: the pause is not lengthened.
CooldownSecondsPlain(interval) == interval

\* self.check_interval * ERROR_PAUSE_MULTIPLIER
CooldownSeconds(interval) == interval * ERROR_PAUSE_MULTIPLIER

\* while self._running holds; the error ceiling decides what comes next.
LoopEnter ==
    /\ MainRuns
    /\ pc = "loop_top"
    /\ running
    /\ iter_errors' = consecutive_errors
    /\ IF consecutive_errors >= MAX_CONSECUTIVE_ERRORS
       THEN pc' = "cooldown" /\ wait_left' = CooldownSeconds(CheckInterval)
       ELSE pc' = "load_config" /\ wait_left' = wait_left
    /\ UNCHANGED <<extVars, unitVars, storeVars, manualVars, callerVars, running,
                   stopping, reload_config, current_task, task,
                   consecutive_errors, rec_tasks, rec_seen, sr, usage, now,
                   stop_pc, stop_ticks, stop_requested, starts, sched_started>>

\* A second of time.sleep(check_interval * ERROR_PAUSE_MULTIPLIER) passes:
\* the sleep reads no flag.
CooldownTick ==
    /\ MainRuns
    /\ pc = "cooldown"
    /\ wait_left > 0
    /\ wait_left' = wait_left - 1
    /\ UNCHANGED <<extVars, unitVars, iterVars, storeVars, manualVars, callerVars, pc,
                   running, stopping, reload_config, current_task, task,
                   consecutive_errors, rec_tasks, rec_seen, sr, usage, now,
                   stop_pc, stop_ticks, stop_requested, starts, sched_started>>

\* time.sleep(check_interval * ERROR_PAUSE_MULTIPLIER) is over; the counter
\* is reset.
Cooldown ==
    /\ MainRuns
    /\ pc = "cooldown"
    /\ wait_left = 0
    /\ consecutive_errors' = 0
    /\ pc' = "load_config"
    /\ UNCHANGED <<extVars, unitVars, iterVars, storeVars, manualVars, callerVars,
                   running, stopping, reload_config, current_task, task,
                   wait_left, rec_tasks, rec_seen, sr, usage, now, stop_pc,
                   stop_ticks, stop_requested, starts, sched_started>>

\* config = self.config_storage.load() and the report check.
LoadConfig ==
    /\ MainRuns
    /\ pc = "load_config"
    /\ pc' = "should_run"
    /\ UNCHANGED <<extVars, unitVars, iterVars, storeVars, manualVars, callerVars, running, stopping,
                   reload_config, current_task, task, consecutive_errors,
                   wait_left, rec_tasks, rec_seen, sr, usage, now, stop_pc,
                   stop_ticks, stop_requested, starts, sched_started>>

\* A faulty LoadConfigRaises: the exception leaves run_loop.
LoadConfigEscapes ==
    /\ MainRuns
    /\ pc = "load_config"
    /\ pc' = "exited"
    /\ SchedulerGone
    /\ UNCHANGED <<extVars, unitVars, storeVars, manualVars, callerVars, starts,
                   sched_started>>

\* config_storage.load() raises (a config file that does not validate, a
\* file that cannot be read): the loop's except clause counts the error and
\* waits.
LoadConfigRaises ==
    /\ MainRuns
    /\ pc = "load_config"
    /\ consecutive_errors' = consecutive_errors + 1
    /\ wait_left' = CheckInterval
    /\ pc' = "wait"
    /\ UNCHANGED <<extVars, unitVars, iterVars, storeVars, manualVars, callerVars, running, stopping,
                   reload_config, current_task, task, rec_tasks, rec_seen, sr,
                   usage, now, stop_pc, stop_ticks, stop_requested, starts,
                   sched_started>>

\* should_run, should_run = self.should_run(config)
ShouldRunStep ==
    /\ MainRuns
    /\ pc = "should_run"
    /\ \E t \in Times, u \in UsageReadings :
         /\ now' = t
         /\ usage' = IF OracleAsked(stopping, config, t) THEN u ELSE NoUsage
         /\ sr' = ShouldRun(stopping, config, t, u, store)
    /\ pc' = "branch"
    /\ UNCHANGED <<extVars, unitVars, iterVars, storeVars, manualVars, callerVars, running, stopping,
                   reload_config, current_task, task, consecutive_errors,
                   wait_left, rec_tasks, rec_seen, stop_pc, stop_ticks,
                   stop_requested, starts, sched_started>>

\* _check_and_send_report or should_run raises (the task file cannot be
\* read, an active-hours string does not parse): the loop's except clause
\* counts the error and waits.
AdmissionRaises ==
    /\ MainRuns
    /\ pc = "should_run"
    /\ consecutive_errors' = consecutive_errors + 1
    /\ wait_left' = CheckInterval
    /\ pc' = "wait"
    /\ UNCHANGED <<extVars, unitVars, iterVars, storeVars, manualVars, callerVars,
                   running, stopping, reload_config, current_task, task,
                   rec_tasks, rec_seen, sr, usage, now, stop_pc, stop_ticks,
                   stop_requested, starts, sched_started>>

\* if should_run: self.run_next_task(config)
BranchRun ==
    /\ MainRuns
    /\ pc = "branch"
    /\ sr.ok
    /\ pc' = "rnt_get"
    /\ sr' = NoResult
    /\ usage' = NoUsage
    /\ now' = NoTime
    /\ UNCHANGED <<extVars, unitVars, iterVars, storeVars, manualVars, callerVars, running, stopping,
                   reload_config, current_task, task, consecutive_errors,
                   wait_left, rec_tasks, rec_seen, stop_pc, stop_ticks,
                   stop_requested, starts, sched_started>>

\* A faulty BranchSkip: the skip is counted as an error.
BranchSkipCounts ==
    /\ MainRuns
    /\ pc = "branch"
    /\ ~sr.ok
    /\ pc' = "wait"
    /\ wait_left' = CheckInterval
    /\ consecutive_errors' = consecutive_errors + 1
    /\ sr' = NoResult
    /\ usage' = NoUsage
    /\ now' = NoTime
    /\ UNCHANGED <<extVars, unitVars, iterVars, storeVars, manualVars, callerVars,
                   running, stopping, reload_config, current_task, task,
                   rec_tasks, rec_seen, stop_pc, stop_ticks, stop_requested,
                   starts, sched_started>>

\* else: logger.info(f"Skipping: {reason}"), and the wait begins.
BranchSkip ==
    /\ MainRuns
    /\ pc = "branch"
    /\ ~sr.ok
    /\ pc' = "wait"
    /\ wait_left' = CheckInterval
    /\ sr' = NoResult
    /\ usage' = NoUsage
    /\ now' = NoTime
    /\ UNCHANGED <<extVars, unitVars, iterVars, storeVars, manualVars, callerVars, running, stopping,
                   reload_config, current_task, task, consecutive_errors,
                   rec_tasks, rec_seen, stop_pc, stop_ticks, stop_requested,
                   starts, sched_started>>

(* ---------------------------- run_next_task ---------------------------- *)

\* task = get_next_pending() finds nothing: return None, and the wait begins.
RntGetNone ==
    /\ MainRuns
    /\ pc = "rnt_get"
    /\ GetNextPending(store) = NoTask
    /\ pc' = "wait"
    /\ wait_left' = CheckInterval
    /\ UNCHANGED <<extVars, unitVars, iterVars, storeVars, manualVars, callerVars, running, stopping,
                   reload_config, current_task, task, consecutive_errors,
                   rec_tasks, rec_seen, sr, usage, now, stop_pc, stop_ticks,
                   stop_requested, starts, sched_started>>

\* task = get_next_pending(); self._current_task = task; task.start()
RntGet ==
    /\ MainRuns
    /\ pc = "rnt_get"
    /\ GetNextPending(store) # NoTask
    /\ task' = Start(GetNextPending(store))
    /\ current_task' = GetNextPending(store).id
    /\ pc' = "rnt_update"
    /\ UNCHANGED <<extVars, unitVars, iterVars, storeVars, manualVars, callerVars, running, stopping,
                   reload_config, consecutive_errors, wait_left, rec_tasks,
                   rec_seen, sr, usage, now, stop_pc, stop_ticks,
                   stop_requested, starts, sched_started>>

\* self.task_storage.update(task): the task is stored as running and the
\* Executor is called.
RntUpdate ==
    /\ MainRuns
    /\ pc = "rnt_update"
    /\ store' = UpdateTasks(store, task)
    /\ sched_started' = sched_started \cup {task.id}
    /\ pc' = "executing"
    /\ UNCHANGED <<extVars, unitVars, iterVars, history, next_id, manualVars, callerVars, running, stopping,
                   reload_config, current_task, task, consecutive_errors,
                   wait_left, rec_tasks, rec_seen, sr, usage, now, stop_pc,
                   stop_ticks, stop_requested, starts>>

Outcomes == {"success", "failure", "exception"}

\* A faulty Finished: an exception of the Executor leaves the task running.
FinishedDropsException(t, outcome) ==
    IF outcome = "success" THEN Complete(t)
    ELSE IF outcome = "failure" THEN Fail(t, ErrExec)
    ELSE t

\* What the try block makes of the Executor's outcome: task.complete(summary)
\* on success, task.fail(...) on a reported failure or an exception.
Finished(t, outcome) ==
    IF outcome = "success" THEN Complete(t) ELSE Fail(t, ErrExec)

\* A faulty Counted: a success leaves the counter as it is.
CountedNoReset(n, outcome) == IF outcome = "success" THEN n ELSE n + 1

\* The error counter after the outcome.
Counted(n, outcome) == IF outcome = "success" THEN 0 ELSE n + 1

\* executor.execute returns or raises; the finally block clears
\* self._current_task.
ExecReturn ==
    /\ MainRuns
    /\ pc = "executing"
    /\ \E outcome \in Outcomes :
         /\ task' = Finished(task, outcome)
         /\ consecutive_errors' = Counted(consecutive_errors, outcome)
    /\ current_task' = 0
    /\ pc' = "rnt_final_update"
    /\ UNCHANGED <<extVars, unitVars, iterVars, storeVars, manualVars, callerVars, running, stopping,
                   reload_config, wait_left, rec_tasks, rec_seen, sr, usage,
                   now, stop_pc, stop_ticks, stop_requested, starts,
                   sched_started>>

\* finally: self.task_storage.update(task)
RntFinalUpdate ==
    /\ MainRuns
    /\ pc = "rnt_final_update"
    /\ store' = UpdateTasks(store, task)
    /\ pc' = "rnt_record"
    /\ UNCHANGED <<extVars, unitVars, iterVars, history, next_id, manualVars, callerVars, running, stopping,
                   reload_config, current_task, task, consecutive_errors,
                   wait_left, rec_tasks, rec_seen, sr, usage, now, stop_pc,
                   stop_ticks, stop_requested, starts, sched_started>>

\* finally: self.history_storage.record_execution(task), the completion
\* callback, return task; the wait begins.
RntRecord ==
    /\ MainRuns
    /\ pc = "rnt_record"
    /\ history' = RecordExecution(history, task)
    /\ task' = NoTask
    /\ pc' = "wait"
    /\ wait_left' = CheckInterval
    /\ UNCHANGED <<extVars, unitVars, iterVars, store, next_id, manualVars, callerVars, running, stopping,
                   reload_config, current_task, consecutive_errors, rec_tasks,
                   rec_seen, sr, usage, now, stop_pc, stop_ticks,
                   stop_requested, starts, sched_started>>

\* A call of the Task Store or the History Store in run_next_task raises,
\* outside the try block: get_next_pending, the update before the Executor,
\* the update or record_execution of the finally block.  What the call and
\* the rest of run_next_task would have done is not done; the loop's except
\* clause counts the error and waits.
RunNextTaskRaises ==
    /\ MainRuns
    /\ pc \in {"rnt_get", "rnt_update", "rnt_final_update", "rnt_record"}
    /\ task' = NoTask
    /\ consecutive_errors' = consecutive_errors + 1
    /\ wait_left' = CheckInterval
    /\ pc' = "wait"
    /\ UNCHANGED <<extVars, unitVars, iterVars, storeVars, manualVars, callerVars,
                   running, stopping, reload_config, current_task, rec_tasks,
                   rec_seen, sr, usage, now, stop_pc, stop_ticks,
                   stop_requested, starts, sched_started>>

(* -------------------------- _wait_interruptible ------------------------ *)

\* range(seconds) is exhausted: back to the while.
WaitDone ==
    /\ MainRuns
    /\ pc = "wait"
    /\ wait_left = 0
    /\ pc' = "loop_top"
    /\ UNCHANGED <<extVars, unitVars, iterVars, storeVars, manualVars, callerVars, running, stopping,
                   reload_config, current_task, task, consecutive_errors,
                   wait_left, rec_tasks, rec_seen, sr, usage, now, stop_pc,
                   stop_ticks, stop_requested, starts, sched_started>>

\* if not self._running: break
WaitStopped ==
    /\ MainRuns
    /\ pc = "wait"
    /\ wait_left > 0
    /\ ~running
    /\ wait_left' = 0
    /\ pc' = "loop_top"
    /\ UNCHANGED <<extVars, unitVars, iterVars, storeVars, manualVars, callerVars, running, stopping,
                   reload_config, current_task, task, consecutive_errors,
                   rec_tasks, rec_seen, sr, usage, now, stop_pc, stop_ticks,
                   stop_requested, starts, sched_started>>

\* if self._reload_config: self._reload_config = False; break
WaitReload ==
    /\ MainRuns
    /\ pc = "wait"
    /\ wait_left > 0
    /\ running
    /\ reload_config
    /\ reload_config' = FALSE
    /\ wait_left' = 0
    /\ pc' = "loop_top"
    /\ UNCHANGED <<extVars, unitVars, iterVars, storeVars, manualVars, callerVars, running, stopping,
                   current_task, task, consecutive_errors, rec_tasks, rec_seen,
                   sr, usage, now, stop_pc, stop_ticks, stop_requested, starts,
                   sched_started>>

\* A faulty WaitSleep: the tick passes whatever the flags say.
WaitSleepDeaf ==
    /\ MainRuns
    /\ pc = "wait"
    /\ wait_left > 0
    /\ wait_left' = wait_left - 1
    /\ UNCHANGED <<extVars, unitVars, iterVars, storeVars, manualVars, callerVars, pc,
                   running, stopping, reload_config, current_task, task,
                   consecutive_errors, rec_tasks, rec_seen, sr, usage, now,
                   stop_pc, stop_ticks, stop_requested, starts, sched_started>>

\* time.sleep(1)
WaitSleep ==
    /\ MainRuns
    /\ pc = "wait"
    /\ wait_left > 0
    /\ running
    /\ ~reload_config
    /\ wait_left' = wait_left - 1
    /\ UNCHANGED <<extVars, unitVars, iterVars, storeVars, manualVars, callerVars, pc, running, stopping,
                   reload_config, current_task, task, consecutive_errors,
                   rec_tasks, rec_seen, sr, usage, now, stop_pc, stop_ticks,
                   stop_requested, starts, sched_started>>

\* Scheduler.request_config_reload, from the SIGUSR1 handler.
RequestConfigReload ==
    /\ Alive
    /\ ~reload_config
    /\ reload_config' = TRUE
    /\ UNCHANGED <<extVars, unitVars, iterVars, storeVars, manualVars, callerVars, pc, running, stopping,
                   current_task, task, consecutive_errors, wait_left,
                   rec_tasks, rec_seen, sr, usage, now, stop_pc, stop_ticks,
                   stop_requested, starts, sched_started>>

(* ------------------------- stop and force_stop ------------------------- *)

\* Scheduler.stop(graceful=True) with no task in flight: self._running = False.
StopIdle ==
    /\ Alive
    /\ stop_pc = "none"
    /\ current_task = 0
    /\ running' = FALSE
    /\ stop_requested' = TRUE
    /\ UNCHANGED <<extVars, unitVars, iterVars, storeVars, manualVars, callerVars, pc, stopping,
                   reload_config, current_task, task, consecutive_errors,
                   wait_left, rec_tasks, rec_seen, sr, usage, now, stop_pc,
                   stop_ticks, starts, sched_started>>

\* Scheduler.stop(graceful=True) with a task in flight: self._stopping = True
\* and the caller starts to wait.  The caller is the daemon's SIGTERM/SIGINT
\* handler ("signal", on the main thread) or another thread ("thread").
StopBegin ==
    /\ Alive
    /\ stop_pc = "none"
    /\ current_task # 0
    /\ stopping' = TRUE
    /\ stop_requested' = TRUE
    /\ stop_ticks' = 0
    /\ \E ctx \in {"signal", "thread"} : stop_pc' = ctx
    /\ UNCHANGED <<extVars, unitVars, iterVars, storeVars, manualVars, callerVars, pc, running,
                   reload_config, current_task, task, consecutive_errors,
                   wait_left, rec_tasks, rec_seen, sr, usage, now, starts,
                   sched_started>>

\* A faulty StopWaitOver: stop() does not wait for the task.
StopWaitSkipped(cur, ticks) == TRUE

\* The wait of stop() ends: the task is over, or range(MAX_TASK_WAIT_SECONDS)
\* is exhausted.
StopWaitOver(cur, ticks) == cur = 0 \/ ticks >= MaxTaskWait

\* time.sleep(1) in stop().
StopWaitTick ==
    /\ Alive
    /\ stop_pc # "none"
    /\ ~StopWaitOver(current_task, stop_ticks)
    /\ stop_ticks' = stop_ticks + 1
    /\ UNCHANGED <<extVars, unitVars, iterVars, storeVars, manualVars, callerVars, pc, running, stopping,
                   reload_config, current_task, task, consecutive_errors,
                   wait_left, rec_tasks, rec_seen, sr, usage, now, stop_pc,
                   stop_requested, starts, sched_started>>

\* The wait is over: self._running = False, and stop() returns.
StopEnd ==
    /\ Alive
    /\ stop_pc # "none"
    /\ StopWaitOver(current_task, stop_ticks)
    /\ running' = FALSE
    /\ stop_pc' = "none"
    /\ stop_ticks' = 0
    /\ UNCHANGED <<extVars, unitVars, iterVars, storeVars, manualVars, callerVars, pc, stopping,
                   reload_config, current_task, task, consecutive_errors,
                   wait_left, rec_tasks, rec_seen, sr, usage, now,
                   stop_requested, starts, sched_started>>

\* force_stop() with no task in flight.
ForceStopIdle ==
    /\ Alive
    /\ current_task = 0
    /\ running \/ stopping
    /\ running' = FALSE
    /\ stopping' = FALSE
    /\ UNCHANGED <<extVars, unitVars, iterVars, storeVars, manualVars, callerVars, pc, reload_config,
                   current_task, task, consecutive_errors, wait_left,
                   rec_tasks, rec_seen, sr, usage, now, stop_pc, stop_ticks,
                   stop_requested, starts, sched_started>>

\* A faulty Forced: force_stop does not fail the task.
ForcedKeepsStatus(t) == t

\* self._current_task.fail("Forced shutdown")
Forced(t) == Fail(t, ErrForced)

\* force_stop() with a task in flight: the task is failed, stored and
\* recorded, and self._current_task is cleared.
ForceStopTask ==
    /\ Alive
    /\ current_task # 0
    /\ running' = FALSE
    /\ stopping' = FALSE
    /\ task' = Forced(task)
    /\ store' = UpdateTasks(store, Forced(task))
    /\ history' = RecordExecution(history, Forced(task))
    /\ current_task' = 0
    /\ UNCHANGED <<extVars, unitVars, iterVars, next_id, manualVars, callerVars, pc, reload_config,
                   consecutive_errors, wait_left, rec_tasks, rec_seen, sr,
                   usage, now, stop_pc, stop_ticks, stop_requested, starts,
                   sched_started>>

\* Daemon.stop(force=True): SIGKILL ends the process where it stands.
Kill ==
    /\ Alive
    /\ pc' = "killed"
    /\ SchedulerGone
    /\ UNCHANGED <<extVars, unitVars, storeVars, manualVars, callerVars, starts, sched_started>>

(* ----------------------- the manual `run` command ---------------------- *)

\* `scavenger run`: task = storage.claim_next_pending()
ManualClaimNext ==
    /\ m_pc = "idle"
    /\ m_runs < MaxManualRuns
    /\ m_runs' = m_runs + 1
    /\ LET r == ClaimNextPending(store)
       IN  /\ store' = IF r.saved THEN r.tasks ELSE store
           /\ m_task' = r.result
           /\ m_pc' = IF r.result = NoTask THEN "idle" ELSE "executing"
           /\ m_started' = IF r.result = NoTask THEN m_started
                            ELSE m_started \cup {r.result.id}
    /\ UNCHANGED <<extVars, unitVars, iterVars, history, next_id, schedVars, callerVars>>

\* `scavenger run ID`: task = storage.claim_by_id(task_id)
ManualClaimById ==
    /\ m_pc = "idle"
    /\ m_runs < MaxManualRuns
    /\ m_runs' = m_runs + 1
    /\ \E i \in Ids :
         LET r == ClaimById(store, i)
         IN  /\ store' = IF r.saved THEN r.tasks ELSE store
             /\ m_task' = r.result
             /\ m_pc' = IF r.result = NoTask THEN "idle" ELSE "executing"
             /\ m_started' = IF r.result = NoTask THEN m_started
                              ELSE m_started \cup {r.result.id}
    /\ UNCHANGED <<extVars, unitVars, iterVars, history, next_id, schedVars, callerVars>>

\* executor.execute returns or raises in the `run` command.
ManualExecReturn ==
    /\ m_pc = "executing"
    /\ \E outcome \in Outcomes : m_task' = Finished(m_task, outcome)
    /\ m_pc' = "update"
    /\ UNCHANGED <<extVars, unitVars, iterVars, storeVars, schedVars, callerVars, m_runs, m_started>>

\* finally: storage.update(task)
ManualUpdate ==
    /\ m_pc = "update"
    /\ store' = UpdateTasks(store, m_task)
    /\ m_pc' = "record"
    /\ UNCHANGED <<extVars, unitVars, iterVars, history, next_id, schedVars, callerVars, m_task, m_runs,
                   m_started>>

\* finally: history_storage.record_execution(task)
ManualRecord ==
    /\ m_pc = "record"
    /\ history' = RecordExecution(history, m_task)
    /\ m_task' = NoTask
    /\ m_pc' = "idle"
    /\ UNCHANGED <<extVars, unitVars, iterVars, store, next_id, schedVars, callerVars, m_runs, m_started>>

(* ----------------------------- the operator ---------------------------- *)

\* `scavenger add`: storage.add(Task(...))
AddTask ==
    /\ next_id <= MaxTasks
    /\ store' = AddTasks(store, NewTask(next_id, PriorityOf(next_id)))
    /\ next_id' = next_id + 1
    /\ UNCHANGED <<extVars, unitVars, iterVars, history, schedVars, manualVars, callerVars>>

\* `scavenger remove ID` of a stored task: storage.remove(task_id)
RemoveTask ==
    /\ \E i \in Ids :
         /\ HasId(store, i)
         /\ store' = RemoveTasks(store, i)
    /\ UNCHANGED <<extVars, unitVars, iterVars, history, next_id, schedVars, manualVars, callerVars>>

\* The steps of the daemon, the `run` command and the operator.  The error
\* paths of the loop (LoadConfigRaises, Cooldown) and the reload request
\* (RequestConfigReload, WaitReload) only lengthen or shorten the waits
\* between iterations; they are left to the specification of the loop's
\* error accounting.
Next ==
    \/ DaemonStart
    \/ RunLoopStart
    \/ RecoverList
    \/ RecoverUpdate
    \/ RecoverRecord
    \/ RecoverDone
    \/ LoopExit
    \/ LoopEnter
    \/ LoadConfig
    \/ ShouldRunStep
    \/ BranchRun
    \/ BranchSkip
    \/ RntGetNone
    \/ RntGet
    \/ RntUpdate
    \/ ExecReturn
    \/ RntFinalUpdate
    \/ RntRecord
    \/ WaitDone
    \/ WaitStopped
    \/ WaitSleep
    \/ StopIdle
    \/ StopBegin
    \/ StopWaitTick
    \/ StopEnd
    \/ ForceStopIdle
    \/ ForceStopTask
    \/ Kill
    \/ ManualClaimNext
    \/ ManualClaimById
    \/ ManualExecReturn
    \/ ManualUpdate
    \/ ManualRecord
    \/ AddTask
    \/ RemoveTask

Spec == Init /\ [][Next]_vars

(* ------------------------------- claims -------------------------------- *)

(* C2: the scheduler's transition of a task from pending to running is an  *)
(* atomic read-modify-write, so no task is handed to the Executor by both  *)
(* the daemon and a manual `run` command.  The code reads the pending task *)
(* with get_next_pending (no lock held across the read and the update), so *)
(* the statement below is violated.                                        *)
C2_NoDoubleExecution ==
    \A i \in Ids : ~(i \in sched_started /\ i \in m_started)

\* The stored status may go from a to b.
C3_Allowed(a, b) ==
    \/ a = b
    \/ a = PENDING /\ b \in {RUNNING, PAUSED}
    \/ a = RUNNING /\ b \in {COMPLETED, FAILED}
    \/ a = "absent" /\ b = PENDING
    \/ b = "absent"

(* C3: a stored task's status changes only along pending -> running ->     *)
(* {completed, failed} (or pending -> paused); a completed or failed task  *)
(* never changes status again.  Violated: an update of a stale copy writes *)
(* a status over a terminal one.                                           *)
C3_StatusTransitions ==
    [][\A i \in Ids : C3_Allowed(StatusOf(store, i), StatusOf(store', i))]_vars

(* C4: once Scheduler.stop has been requested, should_run returns false    *)
(* and the loop picks no further pending task to run.  Violated: stop()    *)
(* with no task in flight clears only _running, which should_run does not  *)
(* read and run_loop sets again when it starts.                            *)
C4_NoStartAfterStop ==
    [][stop_requested =>
         /\ ~(pc = "should_run" /\ pc' = "branch" /\ sr'.ok)
         /\ ~(pc = "rnt_get" /\ pc' = "rnt_update")]_vars

(* C5: after the daemon has shut down, by whatever path, no task that its  *)
(* scheduler started is left stored as running.  Violated: SIGKILL ends    *)
(* the process between the update that stores running and the final one.   *)
C5_NoRunningAfterShutdown ==
    pc \in {"exited", "killed"} =>
        \A i \in sched_started : StatusOf(store, i) # RUNNING

C6_Step ==
    /\ (stop_pc = "none" /\ stop_pc' # "none") =>
          /\ current_task # 0
          /\ stopping'
          /\ UNCHANGED <<extVars, pc, running, task, current_task, store, history>>
    /\ (stop_pc # "none" /\ stop_pc' = stop_pc /\ stop_ticks' # stop_ticks) =>
          /\ current_task # 0
          /\ stop_ticks < MaxTaskWait
          /\ stop_ticks' = stop_ticks + 1
          /\ UNCHANGED <<extVars, pc, running, task, current_task, store, history>>
    /\ (stop_pc # "none" /\ stop_pc' = "none" /\ pc' \notin {"exited", "killed"}) =>
          /\ current_task = 0 \/ stop_ticks >= MaxTaskWait
          /\ ~running'
          /\ UNCHANGED <<extVars, pc, task, current_task, store, history>>
    /\ (stop_pc = "signal" /\ pc' # "killed") => pc' = pc
    /\ (pc = "executing" /\ pc' = "rnt_final_update") =>
          /\ task'.status \in {COMPLETED, FAILED}
          /\ task'.status = FAILED => task'.error = ErrExec
    /\ (pc = "branch" /\ stopping) => pc' \in {"branch", "wait", "killed"}
    /\ (stopping /\ ~running) => ~running'
    /\ (pc = "loop_top" /\ ~running) => pc' \in {"loop_top", "exited", "killed"}

(* C6: a graceful stop with a task in flight sets stopping and leaves the  *)
(* task alone; its caller waits, a second at a time, until current_task is *)
(* None or MAX_TASK_WAIT_SECONDS have passed, and only then clears         *)
(* running; a should_run evaluated while stopping says "Scheduler is       *)
(* stopping".                                                              *)
(* Once running is cleared nothing sets it again, and the while test that  *)
(* finds it cleared ends the loop.                                         *)
C6_GracefulStop ==
    /\ [](stop_pc # "none" => stop_ticks <= MaxTaskWait)
    /\ []((pc = "branch" /\ stopping) =>
             sr = [ok |-> FALSE, reason |-> ReasonStopping])
    /\ [][C6_Step]_vars

C6_Witness ==
    /\ stop_requested
    /\ stopping
    /\ ~running
    /\ stop_pc = "none"
    /\ pc = "branch"
    /\ sr.reason = ReasonStopping
    /\ \E k \in 1..Len(history) : history[k].status = COMPLETED

LoopPcs ==
    {"loop_top", "cooldown", "load_config", "should_run", "branch", "rnt_get",
     "rnt_update", "executing", "rnt_final_update", "rnt_record", "wait"}

RecoveryPcs == {"recover_list", "recover", "recover_record"}

InterruptedRecord(i) ==
    [task_id |-> i, status |-> FAILED, error |-> ErrInterrupted]

C7_Count(i) ==
    Cardinality({k \in 1..Len(history) : history[k] = InterruptedRecord(i)})

C7_RunningIds(tasks) ==
    {tasks[k].id : k \in {j \in 1..Len(tasks) : tasks[j].status = RUNNING}}

C7_Inv ==
    /\ pc \in LoopPcs => rec_tasks = <<>>
    /\ pc \in LoopPcs \cup RecoveryPcs => \A i \in rec_seen : C7_Count(i) = 1
    /\ pc \in RecoveryPcs \cup {"constructed"} =>
          sched_started = {} /\ current_task = 0 /\ sr = NoResult

C7_Step ==
    /\ (pc = "recover_list" /\ pc' = "recover") =>
          /\ {rec_tasks'[k].id : k \in 1..Len(rec_tasks')} = C7_RunningIds(store)
          /\ Len(rec_tasks') = Cardinality(C7_RunningIds(store))
          /\ rec_seen' = {}
    /\ (pc = "recover" /\ pc' = "recover_record") =>
          LET i == Head(rec_tasks).id
          IN  /\ i \notin rec_seen
              /\ HasId(store, i) =>
                    /\ StatusOf(store', i) = FAILED
                    /\ store'[IndexOf(store', i)].error = ErrInterrupted
    /\ (pc = "recover_record" /\ pc' = "recover") =>
          LET i == Head(rec_tasks).id
          IN  /\ history' = Append(history, InterruptedRecord(i))
              /\ rec_seen' = rec_seen \cup {i}
              /\ rec_tasks' = Tail(rec_tasks)
    /\ pc \in LoopPcs => pc' \notin RecoveryPcs

ForcedRecord(i) == [task_id |-> i, status |-> FAILED, error |-> ErrForced]

C9_Inv ==
    pc \in {"loop_top", "load_config", "should_run", "branch", "rnt_get", "wait"} =>
        \A i \in sched_started : StatusOf(store, i) # RUNNING

C9_Step ==
    /\ (pc = "rnt_final_update" /\ pc' = "rnt_record") =>
          /\ task.status \in {COMPLETED, FAILED}
          /\ HasId(store, task.id) => store'[IndexOf(store', task.id)] = task
    /\ (pc = "rnt_record" /\ pc' = "wait") =>
          /\ task.status \in {COMPLETED, FAILED}
          /\ history' = Append(history, [task_id |-> task.id,
                                         status |-> task.status,
                                         error |-> task.error])
    /\ (pc \in {"rnt_update", "executing", "rnt_final_update"}) =>
          pc' \notin {"wait", "loop_top"}

C10_Unusable(u) == u.kind = "none" \/ u.session < 0 \/ u.weekly < 0

(* C10: admission fails closed: when the oracle's reading is absent or     *)
(* invalid should_run answers no, with the reason "Unable to fetch usage    *)
(* info", and the iteration starts no task.                                 *)
C10_FailClosed ==
    /\ []((pc = "branch" /\ usage # NoUsage /\ C10_Unusable(usage)) =>
             sr = [ok |-> FALSE, reason |-> ReasonNoUsage])
    /\ [][(pc = "branch" /\ usage # NoUsage /\ C10_Unusable(usage)) =>
             pc' # "rnt_get"]_vars

C10_Witness ==
    /\ pc = "branch"
    /\ usage = UsageInfo(-1, 10)
    /\ IsActiveNow(config.active_hours, now)
    /\ GetNextPending(store) # NoTask
    /\ sr = [ok |-> FALSE, reason |-> ReasonNoUsage]

(* ------- SpecAdmission: single calls of the admission operations ------- *)

\* "01:00", "06:00", "22:00"
WindowEnds == {60, 360, 1320}

\* usage_limit_by_day maps: every day, no day, working days only.  The limit
\* of day d is 11 + d, so that no two days and no default agree.
LimitMaps ==
    {[d \in D |-> 11 + d] : D \in {0..6, {}, 1..5}}

ResetHours == {0, 6}

\* The configurations config_storage.load() may return.
Configs ==
    {[active_hours |-> [start |-> a, end |-> b],
      limits |-> [usage_limit_by_day |-> m,
                  usage_limit_default |-> DefaultUsageLimit,
                  usage_reset_hour |-> r]] :
        a \in WindowEnds, b \in WindowEnds, m \in LimitMaps, r \in ResetHours}

\* datetime.now() on weekday wd, s seconds after midnight.
FromSeconds(wd, s) ==
    [weekday |-> wd, hour |-> s \div 3600, minute |-> (s \div 60) % 60,
     second |-> s % 60]

\* Times of day around the ends of the window ah, and half way between them.
ProbeSeconds(ah) ==
    LET a == ah.start * 60
        b == ah.end * 60
    IN  {x \in {a - 1, a, a + 1, b - 1, b, b + 1, (a + b) \div 2} :
            0 <= x /\ x < 86400}

\* Readings of the oracle around the limits in LimitMaps.
UnitReadings ==
    {[kind |-> "none", session |-> 0, weekly |-> 0],
     UsageInfo(-1, -1), UsageInfo(10, -1), UsageInfo(-1, 10)}
    \cup {UsageInfo(10, w) : w \in {10, 11, 13, 14, 17, 20}}

InitAdmission ==
    /\ config \in Configs
    /\ \E wd \in {0, 3} :
         now \in {FromSeconds(wd, x) : x \in ProbeSeconds(config.active_hours)}
    /\ usage \in UnitReadings
    /\ stopping \in BOOLEAN
    /\ store \in {<<>>, <<StoredTask(1, 1, PENDING)>>}
    /\ history = <<>>
    /\ next_id = Len(store) + 1
    /\ req_id = 0
    /\ pc = "down"
    /\ running = FALSE
    /\ reload_config = FALSE
    /\ current_task = 0
    /\ task = NoTask
    /\ consecutive_errors = 0
    /\ wait_left = 0
    /\ rec_tasks = <<>>
    /\ rec_seen = {}
    /\ sr = NoResult
    /\ stop_pc = "none"
    /\ stop_ticks = 0
    /\ stop_requested = FALSE
    /\ starts = 0
    /\ sched_started = {}
    /\ iter_errors = 0
    /\ m_pc = "idle"
    /\ m_task = NoTask
    /\ m_runs = 0
    /\ m_started = {}
    /\ lock = 0
    /\ c_pc = [c \in Callers |-> "idle"]
    /\ c_op = [c \in Callers |-> "none"]
    /\ c_tasks = [c \in Callers |-> <<>>]
    /\ c_res = [c \in Callers |-> NoTask]
    /\ NothingCalled
    /\ ExtIdle

\* config.active_hours.is_active_now()
CallIsActiveNow ==
    /\ called = {}
    /\ called' = {"is_active_now"}
    /\ ret_active' = IsActiveNow(config.active_hours, now)
    /\ UNCHANGED <<extVars, iterVars, storeVars, schedVars, manualVars, callerVars, config,
                   ret_limit, picked>>

\* config.limits.get_limit_for_today()
CallGetLimitForToday ==
    /\ called = {}
    /\ called' = {"get_limit_for_today"}
    /\ ret_limit' = GetLimitForToday(config.limits, now)
    /\ UNCHANGED <<extVars, iterVars, storeVars, schedVars, manualVars, callerVars, config,
                   ret_active, picked>>

\* self.should_run(config)
CallShouldRun ==
    /\ called = {}
    /\ called' = {"should_run"}
    /\ sr' = ShouldRun(stopping, config, now, usage, store)
    /\ UNCHANGED <<extVars, iterVars, storeVars, manualVars, callerVars, pc, running, stopping,
                   reload_config, current_task, task, consecutive_errors,
                   wait_left, rec_tasks, rec_seen, usage, now, stop_pc,
                   stop_ticks, stop_requested, starts, sched_started, config,
                   ret_active, ret_limit, picked>>

NextAdmission ==
    \/ CallIsActiveNow
    \/ CallGetLimitForToday
    \/ CallShouldRun

SpecAdmission == InitAdmission /\ [][NextAdmission]_vars

\* The time of day t is at or after hh:mm:00, m minutes after midnight.
AtOrAfter(t, m) ==
    \/ t.hour > m \div 60
    \/ t.hour = m \div 60 /\ t.minute >= m % 60

\* The time of day t is at or before hh:mm:00.
AtOrBefore(t, m) ==
    \/ t.hour < m \div 60
    \/ t.hour = m \div 60 /\ t.minute < m % 60
    \/ t.hour = m \div 60 /\ t.minute = m % 60 /\ t.second = 0

\* The window of cfg is open at t, as the specification words it.
InWindow(cfg, t) ==
    LET ah == cfg.active_hours
    IN  IF ah.start <= ah.end
        THEN AtOrAfter(t, ah.start) /\ AtOrBefore(t, ah.end)
        ELSE AtOrAfter(t, ah.start) \/ AtOrBefore(t, ah.end)

\* The effective day: the day before when the hour precedes the reset hour.
EffectiveDay(cfg, t) ==
    IF t.hour < cfg.limits.usage_reset_hour
    THEN (IF t.weekday = 0 THEN 6 ELSE t.weekday - 1)
    ELSE t.weekday

\* The effective limit: the entry of the effective day, or the default.
EffectiveLimit(cfg, t) ==
    LET m == cfg.limits.usage_limit_by_day
    IN  IF \E d \in DOMAIN m : d = EffectiveDay(cfg, t)
        THEN m[EffectiveDay(cfg, t)]
        ELSE cfg.limits.usage_limit_default

\* The reading is there and both percentages were read.
ValidReading(u) == u.kind = "info" /\ u.session >= 0 /\ u.weekly >= 0

(* C11: quota gate: should_run answers no, with the quota reason, whenever  *)
(* the weekly usage is at or above the effective limit (the checks before   *)
(* the quota check having passed; with a valid reading at or above the      *)
(* limit it never answers yes); the effective limit is the entry of the     *)
(* previous weekday when the hour is below usage_reset_hour, of the current *)
(* weekday otherwise, and usage_limit_default when the map has no entry.    *)
C11_QuotaGate ==
    /\ "get_limit_for_today" \in called => ret_limit = EffectiveLimit(config, now)
    /\ ("should_run" \in called /\ ValidReading(usage)
           /\ usage.weekly >= EffectiveLimit(config, now)) =>
          /\ ~sr.ok
          /\ (~stopping /\ InWindow(config, now)) =>
                sr = [ok |-> FALSE, reason |-> ReasonLimit]

C11_Witness ==
    /\ "should_run" \in called
    /\ sr = [ok |-> FALSE, reason |-> ReasonLimit]
    /\ now.hour < config.limits.usage_reset_hour
    /\ now.weekday = 3
    /\ config.limits.usage_limit_by_day = [d \in 0..6 |-> 11 + d]
    /\ usage.weekly = 13
    /\ store # <<>>

\* What should_run is to answer: yes when every check passes, else no with
\* the reason of the first check that fails.
Admission(stp, cfg, t, u, tasks) ==
    IF stp THEN [ok |-> FALSE, reason |-> ReasonStopping]
    ELSE IF ~InWindow(cfg, t) THEN [ok |-> FALSE, reason |-> ReasonInactive]
    ELSE IF ~ValidReading(u) THEN [ok |-> FALSE, reason |-> ReasonNoUsage]
    ELSE IF u.weekly >= EffectiveLimit(cfg, t)
    THEN [ok |-> FALSE, reason |-> ReasonLimit]
    ELSE IF \A k \in 1..Len(tasks) : tasks[k].status # PENDING
    THEN [ok |-> FALSE, reason |-> ReasonNoTasks]
    ELSE [ok |-> TRUE, reason |-> ReasonReady]

(* C12: should_run answers yes exactly when no stop is in progress, the     *)
(* time is inside the window, the reading is valid, the weekly usage is     *)
(* below the effective limit and a task is pending; otherwise it answers no *)
(* with the reason of the first failing check, in that order.               *)
C12_ShouldRunOrder ==
    "should_run" \in called =>
        /\ sr = Admission(stopping, config, now, usage, store)
        /\ sr.ok <=> /\ ~stopping
                     /\ InWindow(config, now)
                     /\ ValidReading(usage)
                     /\ usage.weekly < EffectiveLimit(config, now)
                     /\ \E k \in 1..Len(store) : store[k].status = PENDING

C12_Witness ==
    /\ "should_run" \in called
    /\ sr = [ok |-> FALSE, reason |-> ReasonNoUsage]
    /\ ~stopping
    /\ usage = UsageInfo(10, -1)
    /\ store = <<>>

(* C13: active-hours window: for start <= end is_active_now is true iff     *)
(* start <= now <= end; for start > end iff now >= start or now <= end; for *)
(* an overnight window it is true at start and at end and false half way    *)
(* through the inactive span.                                               *)
C13_Window ==
    "is_active_now" \in called =>
        LET ah == config.active_hours
        IN  /\ ret_active <=> InWindow(config, now)
            /\ ah.start > ah.end =>
                  /\ SecondsOf(now) = ah.start * 60 => ret_active
                  /\ SecondsOf(now) = ah.end * 60 => ret_active
                  /\ SecondsOf(now) = (ah.start * 60 + ah.end * 60) \div 2 =>
                        ~ret_active

C13_Witness ==
    /\ "is_active_now" \in called
    /\ config.active_hours.start > config.active_hours.end
    /\ SecondsOf(now) =
          (config.active_hours.start * 60 + config.active_hours.end * 60) \div 2
    /\ ~ret_active

(* ---------- SpecSelect: successive selections from one store ----------- *)

SelPriorities == {1, 3, 5}

\* Up to SelTasks tasks, ids in insertion order, pending or completed.
InitSelect ==
    /\ \E k \in 0..SelTasks :
         store \in {[i \in 1..k |-> StoredTask(i, f[i][1], f[i][2])] :
                      f \in [1..k -> SelPriorities \X {PENDING, COMPLETED}]}
    /\ history = <<>>
    /\ next_id = Len(store) + 1
    /\ req_id = 0
    /\ config = DefaultConfig
    /\ ProcessesIdle
    /\ NothingCalled
    /\ ExtIdle

\* The calls so far have found a task each.
AllFound == \A k \in 1..Len(picked) : picked[k].id # 0

\* storage.claim_next_pending()
SelectClaimNext ==
    /\ AllFound
    /\ LET r == ClaimNextPending(store)
       IN  /\ store' = IF r.saved THEN r.tasks ELSE store
           /\ picked' = Append(picked, [op |-> "claim", id |-> r.result.id])
    /\ UNCHANGED <<extVars, iterVars, history, next_id, schedVars, manualVars, callerVars, config,
                   called, ret_active, ret_limit>>

\* storage.get_next_pending()
SelectGetNext ==
    /\ AllFound
    /\ IF picked = <<>> THEN TRUE ELSE picked[Len(picked)].op # "get"
    /\ picked' = Append(picked, [op |-> "get", id |-> GetNextPending(store).id])
    /\ UNCHANGED <<extVars, iterVars, storeVars, schedVars, manualVars, callerVars, config,
                   called, ret_active, ret_limit>>

NextSelect == SelectClaimNext \/ SelectGetNext

SpecSelect == InitSelect /\ [][NextSelect]_vars

\* Task a is selected before task b: lower priority number, or the same
\* priority and inserted earlier.
SelectedBefore(tasks, a, b) ==
    LET ia == IndexOf(tasks, a)
        ib == IndexOf(tasks, b)
    IN  \/ tasks[ia].priority < tasks[ib].priority
        \/ tasks[ia].priority = tasks[ib].priority /\ ia < ib

PendingIds(tasks) ==
    {tasks[k].id : k \in {j \in 1..Len(tasks) : tasks[j].status = PENDING}}

\* The ids the claims so far returned, in the order of the claims.
ClaimedIds ==
    LET IsClaim(e) == e.op = "claim" /\ e.id # 0
        cs == SelectSeq(picked, IsClaim)
    IN  [k \in 1..Len(cs) |-> cs[k].id]

(* C14: selection policy: claim_next_pending and get_next_pending return    *)
(* the pending task of the lowest priority number, the earliest inserted    *)
(* among equals, and None only when no task is pending; claims on tasks     *)
(* inserted with priorities 5, 1, 3, 1 return the second, the fourth, the   *)
(* third and the first task, in this order.                                  *)
C14_SelectionPolicy ==
    /\ \A i, j \in 1..Len(ClaimedIds) :
          i < j => SelectedBefore(store, ClaimedIds[i], ClaimedIds[j])
    /\ \A i \in 1..Len(ClaimedIds) :
          /\ StatusOf(store, ClaimedIds[i]) = RUNNING
          /\ \A b \in PendingIds(store) : SelectedBefore(store, ClaimedIds[i], b)
    /\ picked # <<>> =>
          LET last == picked[Len(picked)]
          IN  /\ last.id = 0 => PendingIds(store) = {}
              /\ (last.op = "get" /\ last.id # 0) =>
                    /\ last.id \in PendingIds(store)
                    /\ \A b \in PendingIds(store) \ {last.id} :
                          SelectedBefore(store, last.id, b)
    /\ (Len(store) = 4 /\ Len(ClaimedIds) = 4
           /\ [k \in 1..4 |-> store[k].priority] = <<5, 1, 3, 1>>) =>
          ClaimedIds = <<2, 4, 3, 1>>

C14_Witness ==
    /\ Len(store) = 4
    /\ [k \in 1..4 |-> store[k].priority] = <<5, 1, 3, 1>>
    /\ ClaimedIds = <<2, 4, 3, 1>>
    /\ \E k \in 1..Len(picked) : picked[k] = [op |-> "get", id |-> 4]

(* ---------------------------------------------------------------------- *)
(* The loop with its failures: every call of an iteration that can raise  *)
(* may raise, SIGUSR1 asks for a config reload, and stop() is the only    *)
(* way out.  The manual run, the operator, force_stop and SIGKILL are     *)
(* left out, and with them the empty queue under an admitted run.         *)
(* ---------------------------------------------------------------------- *)

NextLoop ==
    \/ DaemonStart
    \/ RunLoopStart
    \/ RecoverList
    \/ RecoverUpdate
    \/ RecoverRecord
    \/ RecoverDone
    \/ LoopExit
    \/ LoopEnter
    \/ CooldownTick
    \/ Cooldown
    \/ LoadConfig
    \/ LoadConfigRaises
    \/ ShouldRunStep
    \/ AdmissionRaises
    \/ BranchRun
    \/ BranchSkip
    \/ RntGet
    \/ RntUpdate
    \/ ExecReturn
    \/ RntFinalUpdate
    \/ RntRecord
    \/ RunNextTaskRaises
    \/ WaitDone
    \/ WaitStopped
    \/ WaitReload
    \/ WaitSleep
    \/ RequestConfigReload
    \/ StopIdle
    \/ StopBegin
    \/ StopWaitTick
    \/ StopEnd

SpecLoop == Init /\ [][NextLoop]_vars

\* The pcs of an iteration before its outcome is counted.
BeforeOutcomePcs ==
    {"load_config", "should_run", "branch", "rnt_get", "rnt_update",
     "executing"}

\* C15 as stated: once consecutive_errors is at the ceiling, the next sleep
\* of the loop is the extended one, so the loop is never in its ordinary
\* wait with the counter at the ceiling.
C15_NextSleepIsCooldown ==
    ~(pc = "wait" /\ wait_left > 0
        /\ consecutive_errors >= MAX_CONSECUTIVE_ERRORS)

C15_Inv ==
    /\ pc \in BeforeOutcomePcs => consecutive_errors < MAX_CONSECUTIVE_ERRORS
    /\ pc = "cooldown" =>
         /\ consecutive_errors >= MAX_CONSECUTIVE_ERRORS
         /\ wait_left <= CheckInterval * ERROR_PAUSE_MULTIPLIER

C15_Step ==
    /\ (pc = "loop_top" /\ pc' \notin {"loop_top", "exited"}) =>
         IF consecutive_errors >= MAX_CONSECUTIVE_ERRORS
         THEN /\ pc' = "cooldown"
              /\ wait_left' = CheckInterval * ERROR_PAUSE_MULTIPLIER
              /\ consecutive_errors' = consecutive_errors
         ELSE pc' = "load_config"
    /\ (pc = "cooldown" /\ pc' = "cooldown") =>
         /\ wait_left' \in {wait_left, wait_left - 1}
         /\ consecutive_errors' = consecutive_errors
    /\ (pc = "cooldown" /\ pc' # "cooldown") =>
         /\ wait_left = 0
         /\ pc' = "load_config"
         /\ consecutive_errors' = 0

\* C15, amended: an iteration that begins with consecutive_errors at or
\* above the ceiling first sleeps check_interval * ERROR_PAUSE_MULTIPLIER
\* seconds, a sleep no flag cuts short, and the counter is zero when it goes
\* on to load the config; no other iteration sleeps before its wait, and
\* none passes the top of the loop with the counter at the ceiling.  The
\* iteration that raised the counter to the ceiling ends with its ordinary
\* wait of check_interval seconds before that.
C15_ErrorBackoff == []C15_Inv /\ [][C15_Step]_vars

\* The extended sleep is over and the counter is reset.
C15_Witness ==
    /\ pc = "load_config"
    /\ iter_errors >= MAX_CONSECUTIVE_ERRORS
    /\ consecutive_errors = 0

\* consecutive_errors once the top of the iteration is passed: the extended
\* sleep has reset a counter that was at the ceiling.
AfterTop(n) == IF n >= MAX_CONSECUTIVE_ERRORS THEN 0 ELSE n

\* C16 as stated: when an iteration skips, the Task Store, the History
\* Store, current_task and consecutive_errors are what they were when the
\* iteration began.
C16_SameAsBefore ==
    [][(pc = "branch" /\ ~sr.ok /\ pc' = "wait") =>
         /\ store' = store
         /\ history' = history
         /\ current_task' = current_task
         /\ consecutive_errors' = iter_errors]_vars

C16_Inv ==
    pc \in {"load_config", "should_run", "branch"} =>
      consecutive_errors = AfterTop(iter_errors)

C16_Step ==
    /\ (/\ pc \in {"loop_top", "cooldown", "load_config", "should_run",
                   "branch", "wait"}
        /\ pc' \notin {"rnt_get", "exited"}) =>
         /\ store' = store
         /\ history' = history
         /\ current_task' = current_task
    /\ (pc = "branch" /\ ~sr.ok /\ pc' # pc) =>
         /\ pc' = "wait"
         /\ consecutive_errors' = consecutive_errors
    /\ (pc = "wait" /\ pc' \in {"wait", "loop_top"}) =>
         consecutive_errors' = consecutive_errors

\* C16, amended: an iteration whose admission decision is false leaves the
\* Task Store, the History Store and current_task as they were when it
\* began, and neither the admission check nor the skip nor the wait changes
\* consecutive_errors; the counter differs from its value at the start of
\* the iteration only when that value was at the ceiling, and then the
\* extended sleep has reset it to zero.
C16_SkipNoSideEffects == []C16_Inv /\ [][C16_Step]_vars

\* The admission decision is false in an iteration that began with the
\* counter at the ceiling.
C16_Witness ==
    /\ pc = "branch"
    /\ ~sr.ok
    /\ iter_errors >= MAX_CONSECUTIVE_ERRORS
    /\ consecutive_errors = 0

C17_Inv ==
    /\ pc \in {"rnt_get", "rnt_update", "executing"} =>
         consecutive_errors = AfterTop(iter_errors)
    /\ pc \in {"rnt_final_update", "rnt_record"} =>
         /\ task.status \in {COMPLETED, FAILED}
         /\ consecutive_errors =
              IF task.status = COMPLETED THEN 0 ELSE AfterTop(iter_errors) + 1

C17_Step ==
    /\ (pc = "executing" /\ pc' # pc) =>
         /\ pc' = "rnt_final_update"
         /\ \/ task'.status = COMPLETED /\ consecutive_errors' = 0
            \/ /\ task'.status = FAILED
               /\ consecutive_errors' = consecutive_errors + 1
    /\ (pc = "rnt_final_update" /\ pc' = "rnt_record") =>
         consecutive_errors' = consecutive_errors
    /\ (pc = "rnt_record" /\ history' # history) =>
         consecutive_errors' = consecutive_errors

\* C17: a task execution that succeeds sets consecutive_errors to 0; one
\* that fails, by the Executor's report or by an exception, adds exactly 1
\* to what the counter was when the task was started, and the finalization
\* that follows does not count the failure again.
C17_ErrorAccounting == []C17_Inv /\ [][C17_Step]_vars

\* A failed execution is counted on top of an earlier error.
C17_Witness ==
    /\ pc = "rnt_record"
    /\ task.status = FAILED
    /\ iter_errors = 1
    /\ consecutive_errors = 2

\* The pcs at which a call of the iteration can raise.
RaisingPcs ==
    {"load_config", "should_run", "rnt_get", "rnt_update", "executing",
     "rnt_final_update", "rnt_record"}

C18_Step ==
    /\ (pc \in LoopPcs /\ pc' # pc) =>
         /\ pc' \in LoopPcs \cup {"exited"}
         /\ pc' = "exited" => pc = "loop_top" /\ ~running
         /\ running' = running \/ pc' = "exited"
    /\ (pc \in RaisingPcs /\ pc' = "wait") =>
         /\ wait_left' = CheckInterval
         /\ consecutive_errors' \in
              {consecutive_errors, consecutive_errors + 1}
    /\ (pc = "wait" /\ pc' # pc) => pc' = "loop_top"

\* C18: whatever raises in an iteration (the config load, the report check,
\* the admission check, the execution, the finalization), the loop stays in
\* the loop: the step leaves running as it is and leads to the wait and
\* from there to the top of the next iteration, with the error counted at
\* most once; run_loop returns from the top of the loop only, and only when
\* running is cleared.
C18_LoopSurvives == [][C18_Step]_vars

\* Two calls have raised, nothing was executed, and the loop runs its next
\* iteration.
C18_Witness ==
    /\ pc = "load_config"
    /\ running
    /\ iter_errors = 2
    /\ history = <<>>

C19_Step ==
    /\ (pc = "wait" /\ pc' = "wait" /\ (~running \/ reload_config)) =>
         wait_left' = wait_left
    /\ (pc = "wait" /\ pc' # pc /\ wait_left > 0) =>
         /\ pc' = "loop_top"
         /\ ~running \/ reload_config
         /\ running => ~reload_config'
         /\ ~running => reload_config' = reload_config

\* C19: while the loop is in its wait with running cleared or the reload
\* flag set, no further one-second tick passes: the next step of the wait
\* ends it, however much of the check interval is left.  A wait that ends
\* with seconds left has seen one of the two flags, and when it was the
\* reload flag (running still set) the flag is cleared.
C19_InterruptibleSleep == [][C19_Step]_vars

\* A reload is requested with the whole check interval still to wait.
C19_Witness ==
    /\ pc = "wait"
    /\ wait_left = CheckInterval
    /\ CheckInterval > 1
    /\ running
    /\ reload_config

\* C20: a SIGTERM or SIGINT delivered after Daemon.start has installed the
\* handlers is never lost: once its handler has called stop() and stop()
\* has returned, running is cleared and stays so until run_loop returns.
\* Violated: a signal that arrives before run_loop has begun clears
\* _running, and run_loop sets it again when it starts.
C20_StopNeverLost ==
    (Alive /\ stop_requested /\ stop_pc = "none") => ~running

(* ---------------------------------------------------------------------- *)
(* One store file, byte for byte: safe_json_load and safe_json_save as    *)
(* the steps the file system sees, called by two processes.  For          *)
(* tasks.json a process reads without the lock (get, list_all,            *)
(* list_pending) or loads and saves under it (add, update, remove, the    *)
(* claims); for config.json a process loads (ConfigStorage.load) or saves *)
(* (ConfigStorage.save), with no lock.                                    *)
(* ---------------------------------------------------------------------- *)

\* The program outside the file operations stands still.
FileFrame ==
    UNCHANGED <<progVars, notifyVars, daemonVars, mutVars, histVars, pidVars>>

InitFile ==
    /\ store = <<>>
    /\ history = <<>>
    /\ next_id = 1
    /\ req_id = 0
    /\ config = DefaultConfig
    /\ ProcessesIdle
    /\ NothingCalled
    /\ kind \in {"tasks", "config"}
    /\ file \in {Absent, Encode("d1")} \cup Garbage
    /\ tmp = [p \in FileProcs |-> Absent]
    /\ backups = [t \in Stamps |-> Absent]
    /\ clock = 0
    /\ f_lock = 0
    /\ f_pc = [p \in FileProcs |-> "idle"]
    /\ f_data = [p \in FileProcs |-> DefaultData]
    /\ loaded = [p \in FileProcs |-> "none"]
    /\ seen = [p \in FileProcs |-> Unread]
    /\ found = {}
    /\ saves = 0
    /\ NotifyIdle
    /\ DaemonIdle
    /\ MutIdle
    /\ HistIdle
    /\ PidIdle

\* with self._file_lock(): flock(LOCK_EX) is granted.
FileLock(p) ==
    /\ kind = "tasks"
    /\ f_pc[p] = "idle"
    /\ f_lock = 0
    /\ saves < MaxSaves
    /\ f_lock' = p
    /\ f_pc' = [f_pc EXCEPT ![p] = "w_load"]
    /\ FileFrame
    /\ UNCHANGED <<kind, file, tmp, backups, clock, f_data, loaded, seen,
                   found, saves>>

\* Where a process goes on when its load is over.
AfterLoad(at) == IF at \in {"idle", "backup"} THEN "idle" ELSE "w_save"

\* safe_json_load up to the except clause: the file does not exist, or it is
\* read and parsed, or json.load raises JSONDecodeError.
SafeJsonLoad(p) ==
    /\ f_pc[p] \in {"idle", "w_load"}
    /\ seen' = [seen EXCEPT ![p] = file]
    /\ IF file = Absent
       THEN /\ loaded' = [loaded EXCEPT ![p] = DefaultData]
            /\ f_pc' = [f_pc EXCEPT ![p] = AfterLoad(@)]
            /\ found' = found
       ELSE IF Parses(file)
       THEN /\ loaded' = [loaded EXCEPT ![p] = Decode(file)]
            /\ f_pc' = [f_pc EXCEPT ![p] = AfterLoad(@)]
            /\ found' = found
       ELSE /\ loaded' = [loaded EXCEPT ![p] = "none"]
            /\ f_pc' = [f_pc EXCEPT ![p] =
                          IF @ = "idle" THEN "backup" ELSE "w_backup"]
            /\ found' = found \cup {file}
    /\ FileFrame
    /\ UNCHANGED <<kind, file, tmp, backups, clock, f_lock, f_data, saves>>

\* shutil.copy2(file_path, backup_path): the backup file holds what the
\* store file holds now; a source that is gone makes the copy fail, and the
\* failure is logged and swallowed.
CopyTo(old, new) == IF new = Absent THEN old ELSE new

\* The except clause of safe_json_load: _backup_corrupted_file copies the
\* store file to the name of the current second, and the default is
\* returned.
BackupCorruptedFile(p) ==
    /\ f_pc[p] \in {"backup", "w_backup"}
    /\ backups' = [backups EXCEPT ![clock] = CopyTo(@, file)]
    /\ loaded' = [loaded EXCEPT ![p] = DefaultData]
    /\ f_pc' = [f_pc EXCEPT ![p] = AfterLoad(@)]
    /\ FileFrame
    /\ UNCHANGED <<kind, file, tmp, clock, f_lock, f_data, seen, found,
                   saves>>

\* safe_json_save: NamedTemporaryFile(dir=file_path.parent, delete=False)
\* creates an empty temporary file of its own name.
SaveBegin(p) ==
    /\ \/ kind = "tasks" /\ f_pc[p] = "w_save"
       \/ kind = "config" /\ f_pc[p] = "idle"
    /\ saves < MaxSaves
    /\ saves' = saves + 1
    /\ \E d \in Data : f_data' = [f_data EXCEPT ![p] = d]
    /\ tmp' = [tmp EXCEPT ![p] = <<>>]
    /\ f_pc' = [f_pc EXCEPT ![p] = "writing"]
    /\ FileFrame
    /\ UNCHANGED <<kind, file, backups, clock, f_lock, loaded, seen, found>>

\* A faulty SaveWrite: the chunk goes to the store file itself (the
\* atomic=False branch), and the temporary file follows it.
SaveWriteDirect(p) ==
    /\ f_pc[p] = "writing"
    /\ Len(tmp[p]) < Len(Encode(f_data[p]))
    /\ tmp' = [tmp EXCEPT ![p] = Append(@, Encode(f_data[p])[Len(@) + 1])]
    /\ file' = tmp'[p]
    /\ FileFrame
    /\ UNCHANGED <<kind, backups, clock, f_lock, f_pc, f_data, loaded, seen,
                   found, saves>>

\* json.dump(data, tmp_file): the next chunk reaches the temporary file.
SaveWrite(p) ==
    /\ f_pc[p] = "writing"
    /\ Len(tmp[p]) < Len(Encode(f_data[p]))
    /\ tmp' = [tmp EXCEPT ![p] = Append(@, Encode(f_data[p])[Len(@) + 1])]
    /\ FileFrame
    /\ UNCHANGED <<kind, file, backups, clock, f_lock, f_pc, f_data, loaded,
                   seen, found, saves>>

\* shutil.move(tmp_path, file_path): the rename puts the complete temporary
\* file under the store's name; the lock, if held, is released on return.
SaveMove(p) ==
    /\ f_pc[p] = "writing"
    /\ tmp[p] = Encode(f_data[p])
    /\ file' = tmp[p]
    /\ tmp' = [tmp EXCEPT ![p] = Absent]
    /\ f_pc' = [f_pc EXCEPT ![p] = "idle"]
    /\ f_lock' = IF f_lock = p THEN 0 ELSE f_lock
    /\ FileFrame
    /\ UNCHANGED <<kind, backups, clock, f_data, loaded, seen, found, saves>>

\* The process is killed during safe_json_save, before the rename: its
\* temporary file stays as it is and the kernel drops its flock.
FileCrash(p) ==
    /\ f_pc[p] = "writing"
    /\ f_pc' = [f_pc EXCEPT ![p] = "crashed"]
    /\ f_lock' = IF f_lock = p THEN 0 ELSE f_lock
    /\ FileFrame
    /\ UNCHANGED <<kind, file, tmp, backups, clock, f_data, loaded, seen,
                   found, saves>>

\* A second passes.
Tick ==
    /\ clock < MaxClock
    /\ clock' = clock + 1
    /\ FileFrame
    /\ UNCHANGED <<kind, file, tmp, backups, f_lock, f_pc, f_data, loaded,
                   seen, found, saves>>

NextFile ==
    \/ \E p \in FileProcs : FileLock(p)
    \/ \E p \in FileProcs : SafeJsonLoad(p)
    \/ \E p \in FileProcs : BackupCorruptedFile(p)
    \/ \E p \in FileProcs : SaveBegin(p)
    \/ \E p \in FileProcs : SaveWrite(p)
    \/ \E p \in FileProcs : SaveMove(p)
    \/ \E p \in FileProcs : FileCrash(p)
    \/ Tick

SpecFile == InitFile /\ [][NextFile]_vars

\* A dump that was cut short: a proper prefix of a complete one.
IsPartial(c) ==
    \E d \in Data : \E n \in 0..(Len(Encode(d)) - 1) :
       c = SubSeq(Encode(d), 1, n)

C21_Inv ==
    /\ ~IsPartial(file)
    /\ \A p \in FileProcs : ~IsPartial(seen[p])

C21_Step ==
    /\ file' # file =>
         \E p \in FileProcs :
            /\ f_pc[p] = "writing"
            /\ f_pc'[p] = "idle"
            /\ tmp[p] = Encode(f_data[p])
            /\ file' = Encode(f_data[p])
    /\ \A p \in FileProcs :
         /\ (f_pc[p] # "crashed" /\ f_pc'[p] = "crashed") => file' = file
         /\ (seen'[p] # seen[p] /\ Parses(file)) =>
              /\ seen'[p] = file
              /\ loaded'[p] = Decode(file)

\* C21: the store file changes only by the rename of a completely written
\* temporary file, so a process killed before the rename leaves it as it
\* was, the next load returns what it held, and neither the file nor what
\* any reader gets from it is ever a partial dump.
C21_AtomicWrites == []C21_Inv /\ [][C21_Step]_vars

\* A save of other data crashed in the middle of its dump, and a load by
\* the other process returned the previous content.
C21_Witness ==
    \E p, q \in FileProcs :
       /\ f_pc[p] = "crashed"
       /\ Len(tmp[p]) \in {1, 2}
       /\ f_data[p] # "d1"
       /\ file = Encode("d1")
       /\ seen[q] = file
       /\ loaded[q] = "d1"

\* C22: unparseable content that a load of tasks.json has met is never
\* lost: it is still the content of the store file or of a backup file.
\* Violated: a reader without the lock meets the content, a writer backs it
\* up and saves, and the reader's copy, made in the same second, puts the
\* new content under the backup's name.
C22_CorruptedPreserved ==
    kind = "tasks" =>
      \A c \in found : file = c \/ \E t \in Stamps : backups[t] = c

\* C23: when ConfigStorage.load returns the default because config.json is
\* missing or does not parse, config.json holds the default when the load
\* is over.  Violated: load returns Config() and writes nothing.
C23_DefaultsPersisted ==
    [][kind = "config" =>
         \A p \in FileProcs :
            /\ (file = Absent /\ loaded[p] = "none"
                  /\ loaded'[p] = DefaultData) =>
                 file' = Encode(DefaultData)
            /\ (f_pc[p] = "backup" /\ f_pc'[p] = "idle") =>
                 file' = Encode(DefaultData)]_vars

(* ---------------------------------------------------------------------- *)
(* One call of ConfigStorage.save(config, notify), step by step, on every *)
(* platform, PID file and process table it can meet.                      *)
(* ---------------------------------------------------------------------- *)

\* What the PID file can hold: nothing (no file), text that int() rejects,
\* or a number.
PidTexts == {"absent", "garbage", "number"}

\* What os.kill(pid, ...) meets under a number: no such process (ESRCH), a
\* process of the caller, a process of another user (EPERM), or a number
\* that is no pid_t (OverflowError).
PidProcs == {"none", "live", "foreign", "range"}

NotifyFrame ==
    UNCHANGED <<progVars, fileVars, daemonVars, mutVars, histVars, pidVars>>

InitNotify ==
    /\ store = <<>>
    /\ history = <<>>
    /\ next_id = 1
    /\ req_id = 0
    /\ config = DefaultConfig
    /\ ProcessesIdle
    /\ NothingCalled
    /\ FilesIdle
    /\ DaemonIdle
    /\ MutIdle
    /\ HistIdle
    /\ PidIdle
    /\ pid_text \in PidTexts
    /\ pid_proc \in PidProcs
    /\ pid_text # "number" => pid_proc = "none"
    /\ sigusr1 \in BOOLEAN
    /\ notify \in BOOLEAN
    /\ disk_ok \in BOOLEAN
    /\ n_pc = "save"
    /\ n_res = "none"
    /\ written = FALSE
    /\ probed = FALSE
    /\ sent = FALSE

\* The call is over: it returned, or an exception left it.
NotifyEnds(how) ==
    /\ n_pc' = "done"
    /\ n_res' = how

\* safe_json_save(self.config_file, config.model_dump()); if notify: ...
ConfigSave ==
    /\ n_pc = "save"
    /\ IF ~disk_ok
       THEN NotifyEnds("raised") /\ written' = FALSE
       ELSE /\ written' = TRUE
            /\ IF notify
               THEN n_pc' = "platform" /\ n_res' = n_res
               ELSE NotifyEnds("returned")
    /\ NotifyFrame
    /\ UNCHANGED <<pid_text, pid_proc, sigusr1, notify, disk_ok, probed, sent>>

\* if not hasattr(signal, "SIGUSR1"): return False
NotifyPlatform ==
    /\ n_pc = "platform"
    /\ IF sigusr1
       THEN n_pc' = "exists" /\ n_res' = n_res
       ELSE NotifyEnds("returned")
    /\ NotifyFrame
    /\ UNCHANGED <<pid_text, pid_proc, sigusr1, notify, disk_ok, written,
                   probed, sent>>

\* if not pid_file.exists(): return False
NotifyExists ==
    /\ n_pc = "exists"
    /\ IF pid_text = "absent"
       THEN NotifyEnds("returned")
       ELSE n_pc' = "read" /\ n_res' = n_res
    /\ NotifyFrame
    /\ UNCHANGED <<pid_text, pid_proc, sigusr1, notify, disk_ok, written,
                   probed, sent>>

\* pid = int(f.read().strip()): a ValueError is caught by the outer except.
NotifyRead ==
    /\ n_pc = "read"
    /\ IF pid_text = "number"
       THEN n_pc' = "probe" /\ n_res' = n_res
       ELSE NotifyEnds("returned")
    /\ NotifyFrame
    /\ UNCHANGED <<pid_text, pid_proc, sigusr1, notify, disk_ok, written,
                   probed, sent>>

\* The exceptions of os.kill that `except OSError` catches:
\* ProcessLookupError and PermissionError, not OverflowError.
IsOSError(proc) == proc \in {"none", "foreign"}

\* os.kill(pid, 0) inside try/except OSError.
NotifyProbe ==
    /\ n_pc = "probe"
    /\ IF pid_proc = "live"
       THEN n_pc' = "send" /\ n_res' = n_res /\ probed' = TRUE
       ELSE /\ probed' = FALSE
            /\ IF IsOSError(pid_proc)
               THEN NotifyEnds("returned")
               ELSE NotifyEnds("raised")
    /\ NotifyFrame
    /\ UNCHANGED <<pid_text, pid_proc, sigusr1, notify, disk_ok, written,
                   sent>>

\* The process under the PID ends between the probe and the signal.
NotifyTargetDies ==
    /\ n_pc = "send"
    /\ pid_proc = "live"
    /\ pid_proc' = "none"
    /\ NotifyFrame
    /\ UNCHANGED <<pid_text, sigusr1, notify, disk_ok, n_pc, n_res, written,
                   probed, sent>>

\* os.kill(pid, signal.SIGUSR1); an OSError is caught by the outer except.
NotifySend ==
    /\ n_pc = "send"
    /\ sent' = (pid_proc = "live")
    /\ NotifyEnds("returned")
    /\ NotifyFrame
    /\ UNCHANGED <<pid_text, pid_proc, sigusr1, notify, disk_ok, written,
                   probed>>

NextNotify ==
    \/ ConfigSave
    \/ NotifyPlatform
    \/ NotifyExists
    \/ NotifyRead
    \/ NotifyProbe
    \/ NotifyTargetDies
    \/ NotifySend

SpecNotify == InitNotify /\ [][NextNotify]_vars

\* C24: a save whose file write succeeded returns normally, whatever the
\* notification meets.  Violated: a PID file holding a number that is no
\* pid_t makes os.kill raise OverflowError, which no except clause of
\* notify_daemon catches.
C24_SaveSucceeds ==
    (n_pc = "done" /\ written) => n_res = "returned"

(* ---------------------------------------------------------------------- *)
(* Sequences of TaskStorage operations on a drawn store.  Each operation  *)
(* is one step: the operations that write hold the flock from their load  *)
(* to their save.                                                         *)
(* ---------------------------------------------------------------------- *)

\* The ids the operations are called with: the stored ones and one more.
OpIds == 1..(MaxTasks + 1)

\* The statuses of the Task objects that callers hand to update(): what
\* start, complete, fail and pause leave behind.
WrittenStatuses == {RUNNING, COMPLETED, FAILED, PAUSED}

InitOps ==
    /\ \E k \in 0..MaxTasks :
         store \in {[i \in 1..k |-> StoredTask(i, PriorityOf(i), f[i])] :
                      f \in [1..k -> TaskStatus]}
    /\ history = <<>>
    /\ next_id = Len(store) + 1
    /\ req_id = 0
    /\ config = DefaultConfig
    /\ ProcessesIdle
    /\ NothingCalled
    /\ ExtIdle

\* One more operation: what was called, with which id, and what came back.
Logged(op, i, ok) == Append(picked, [op |-> op, id |-> i, ok |-> ok])

OpsFrame ==
    UNCHANGED <<extVars, iterVars, history, req_id, schedVars, manualVars,
                lock, c_pc, c_op, c_tasks, c_res, config, called, ret_active,
                ret_limit>>

\* storage.add(task)
OpAdd ==
    /\ Len(picked) < MaxOps
    /\ next_id \in OpIds
    /\ store' = AddTasks(store, NewTask(next_id, PriorityOf(next_id)))
    /\ next_id' = next_id + 1
    /\ picked' = Logged("add", next_id, TRUE)
    /\ OpsFrame

\* storage.update(task)
OpUpdate ==
    /\ Len(picked) < MaxOps
    /\ \E i \in OpIds, st \in WrittenStatuses :
         /\ store' = UpdateTasks(store, StoredTask(i, PriorityOf(i), st))
         /\ picked' = Logged("update", i, TRUE)
    /\ next_id' = next_id
    /\ OpsFrame

\* storage.remove(task_id)
OpRemove ==
    /\ Len(picked) < MaxOps
    /\ \E i \in OpIds :
         /\ store' = RemoveTasks(store, i)
         /\ picked' = Logged("remove", i, RemoveReturns(store, i))
    /\ next_id' = next_id
    /\ OpsFrame

\* storage.claim_next_pending()
OpClaimNext ==
    /\ Len(picked) < MaxOps
    /\ LET r == ClaimNextPending(store)
       IN  /\ store' = IF r.saved THEN r.tasks ELSE store
           /\ picked' = Logged("claim", r.result.id, r.result # NoTask)
    /\ next_id' = next_id
    /\ OpsFrame

\* storage.claim_by_id(task_id)
OpClaimById ==
    /\ Len(picked) < MaxOps
    /\ \E i \in OpIds :
         LET r == ClaimById(store, i)
         IN  /\ store' = IF r.saved THEN r.tasks ELSE store
             /\ picked' = Logged("claim", r.result.id, r.result # NoTask)
    /\ next_id' = next_id
    /\ OpsFrame

NextOps == OpAdd \/ OpUpdate \/ OpRemove \/ OpClaimNext \/ OpClaimById

SpecOps == InitOps /\ [][NextOps]_vars

\* The set of the stored tasks.
StoredSet(tasks) == {tasks[k] : k \in 1..Len(tasks)}

\* The operation that a step has just logged.
LastOp == picked'[Len(picked')]

C25_Step ==
    Len(picked') = Len(picked) + 1 =>
      /\ (LastOp.op = "update" /\ ~HasId(store, LastOp.id)) =>
           store' = store
      /\ (LastOp.op = "remove" /\ ~HasId(store, LastOp.id)) =>
           /\ LastOp.ok = FALSE
           /\ store' = store
      /\ (LastOp.op = "remove" /\ HasId(store, LastOp.id)) =>
           /\ LastOp.ok = TRUE
           /\ Len(store') = Len(store) - 1
           /\ StoredSet(store') =
                {t \in StoredSet(store) : t.id # LastOp.id}

\* C25: update of a task whose id is not stored leaves the stored tasks as
\* they are; remove of an id that is not stored returns false and leaves
\* them as they are; remove of a stored id returns true and takes exactly
\* the task of that id out.
C25_UpdateRemove == [][C25_Step]_vars

\* An update and a remove of ids that are not stored, and a remove of a
\* stored one, have been called.
C25_Witness ==
    /\ Len(picked) = 3
    /\ picked[1].op = "update" /\ picked[1].id = MaxTasks + 1
    /\ picked[2].op = "remove" /\ ~picked[2].ok
    /\ picked[3].op = "remove" /\ picked[3].ok
    /\ Len(store) = MaxTasks - 1

\* The ids that the claims logged so far have returned.
ReturnedIds == {picked[k].id : k \in {j \in 1..Len(picked) :
                                      picked[j].op = "claim" /\ picked[j].ok}}

\* The stored status of the task of id i.
StoredStatus(tasks, i) == tasks[IndexOf(tasks, i)].status

C30_Step ==
    (/\ Len(picked') = Len(picked) + 1
     /\ LastOp.op = "claim"
     /\ LastOp.ok) =>
      /\ HasId(store, LastOp.id)
      /\ StoredStatus(store, LastOp.id) = PENDING
      /\ LastOp.id \notin ReturnedIds

\* C30: over any sequence of add, update, remove and claim operations,
\* claim_next_pending and claim_by_id return only a task whose stored status
\* is pending, and an id that one claim has returned is returned by no later
\* claim.
C30_ClaimEligibility == [][C30_Step]_vars

\* Two claims have returned tasks and one has returned nothing although
\* tasks that are not pending are stored.
C30_Witness ==
    /\ Len(picked) = 3
    /\ \A k \in 1..3 : picked[k].op = "claim"
    /\ picked[1].ok /\ picked[2].ok /\ ~picked[3].ok
    /\ Len(store) = 2

(* ---------------------------------------------------------------------- *)
(* The scheduler and the stored ids (Spec)                                *)
(* ---------------------------------------------------------------------- *)

\* The ids of the stored tasks.
StoredIds(tasks) == {tasks[k].id : k \in 1..Len(tasks)}

C29_Step == StoredIds(store) \subseteq StoredIds(store') \/ RemoveTask

\* C29: no step of the scheduler (the recovery of running tasks, the start
\* of a task, its finalization, force_stop) takes an id out of the store;
\* only the operator's remove() does.
C29_SchedulerKeepsTasks == [][C29_Step]_vars

\* The scheduler has finalized one task and force_stop has failed another,
\* and both are stored still.
C29_Witness ==
    /\ Len(store) = MaxTasks
    /\ \E i, j \in 1..Len(store) :
         /\ store[i].error = ErrForced
         /\ store[j].status = COMPLETED
    /\ \E k \in 1..Len(history) : history[k].error = ErrInterrupted

(* ---------------------------------------------------------------------- *)
(* One task in flight (SpecLoop)                                          *)
(* ---------------------------------------------------------------------- *)

\* run_next_task takes a task (self._current_task = task) on its way to
\* the Executor.
TakesTask == pc = "rnt_get" /\ pc' = "rnt_update"

\* C28: one task in flight for each scheduler: a task is taken to the
\* Executor only while current_task is not set, and while the Executor runs
\* current_task is the one task that it runs.
C28_OneInFlight ==
    [][/\ TakesTask => current_task = 0
       /\ pc' = "executing" => current_task' = task'.id]_vars

(* ---------------------------------------------------------------------- *)
(* The PID file: one call of Daemon.start on every PID file and process   *)
(* table it can meet, the daemon process that it becomes, the signals     *)
(* that reach that process and one call of Daemon.stop from a second      *)
(* process.                                                               *)
(* ---------------------------------------------------------------------- *)

DaemonFrame ==
    UNCHANGED <<progVars, fileVars, mutVars, histVars, pidVars, sigusr1, notify,
                disk_ok, n_pc, n_res, written, probed, sent>>

InitDaemon ==
    /\ store = <<>>
    /\ history = <<>>
    /\ next_id = 1
    /\ req_id = 0
    /\ config = DefaultConfig
    /\ ProcessesIdle
    /\ NothingCalled
    /\ FilesIdle
    /\ DaemonIdle
    /\ MutIdle
    /\ HistIdle
    /\ PidIdle
    /\ pid_text \in PidTexts
    /\ pid_proc \in PidProcs
    /\ pid_text # "number" => pid_proc = "none"
    /\ sigusr1 = TRUE
    /\ notify = TRUE
    /\ disk_ok = TRUE
    /\ n_pc = "idle"
    /\ n_res = "none"
    /\ written = FALSE
    /\ probed = FALSE
    /\ sent = FALSE

\* The process of Daemon.start exists and has written the PID file.
DaemonAlive == d_pc \in {"hook", "signals", "scheduler", "loop"}

\* The process is gone: start returned and the command ended, an exception
\* left start, sys.exit was called, or a signal ended the process.
DaemonEnded == d_pc \in {"returned", "escaped", "exited", "dead"}

\* self.pid_file.unlink() if the file exists.
RemovePid ==
    /\ pid_text' = "absent"
    /\ pid_proc' = "none"
    /\ d_own' = FALSE

\* The daemon process is gone: the number it wrote, if the PID file holds
\* it still, is the number of no process.
ProcessGone ==
    /\ pid_text' = pid_text
    /\ pid_proc' = IF d_own THEN "none" ELSE pid_proc
    /\ d_own' = d_own

\* if self.is_running(): return False.  get_pid gives None for no file and
\* for text that int() rejects; os.kill(pid, 0) that raises OSError makes
\* is_running remove the PID file and answer False; an OverflowError
\* leaves start.
StartIsRunning ==
    /\ d_pc = "idle"
    /\ IF pid_text # "number"
       THEN d_pc' = "daemonize" /\ UNCHANGED <<pid_text, pid_proc, d_own>>
       ELSE IF pid_proc = "range"
       THEN d_pc' = "raised" /\ UNCHANGED <<pid_text, pid_proc, d_own>>
       ELSE IF IsOSError(pid_proc)
       THEN d_pc' = "daemonize" /\ RemovePid
       ELSE d_pc' = "refused" /\ UNCHANGED <<pid_text, pid_proc, d_own>>
    /\ DaemonFrame
    /\ UNCHANGED <<d_forked, d_hook, d_handlers, d_sched, d_stop, s_pc>>

\* if not foreground: self._daemonize().  A fork that fails ends the
\* process with sys.exit(1).
StartDaemonize ==
    /\ d_pc = "daemonize"
    /\ \E how \in {"foreground", "forked", "fork_failed"} :
         /\ d_forked' = (how = "forked")
         /\ d_pc' = IF how = "fork_failed" THEN "exited" ELSE "write"
    /\ DaemonFrame
    /\ UNCHANGED <<pid_text, pid_proc, d_hook, d_handlers, d_sched, d_stop,
                   d_own, s_pc>>

\* self._setup_logging(); self._write_pid()
StartWritePid ==
    /\ d_pc = "write"
    /\ pid_text' = "number"
    /\ pid_proc' = "live"
    /\ d_own' = TRUE
    /\ d_pc' = "hook"
    /\ DaemonFrame
    /\ UNCHANGED <<d_forked, d_hook, d_handlers, d_sched, d_stop, s_pc>>

\* atexit.register(self._remove_pid)
StartAtexit ==
    /\ d_pc = "hook"
    /\ d_hook' = TRUE
    /\ d_pc' = "signals"
    /\ DaemonFrame
    /\ UNCHANGED <<pid_text, pid_proc, d_forked, d_handlers, d_sched, d_stop,
                   d_own, s_pc>>

\* signal.signal(SIGTERM, ...); signal.signal(SIGINT, ...); SIGUSR1
StartSignals ==
    /\ d_pc = "signals"
    /\ d_handlers' = TRUE
    /\ d_pc' = "scheduler"
    /\ DaemonFrame
    /\ UNCHANGED <<pid_text, pid_proc, d_forked, d_hook, d_sched, d_stop,
                   d_own, s_pc>>

\* self.scheduler = Scheduler(); run_loop begins.
StartScheduler ==
    /\ d_pc = "scheduler"
    /\ d_sched' = TRUE
    /\ d_pc' = "loop"
    /\ DaemonFrame
    /\ UNCHANGED <<pid_text, pid_proc, d_forked, d_hook, d_handlers, d_stop,
                   d_own, s_pc>>

\* The interpreter exits: the atexit hook, if registered, removes the PID
\* file, whatever it holds.
InterpreterExits(how) ==
    /\ d_pc' = how
    /\ IF d_hook THEN RemovePid ELSE ProcessGone
    /\ DaemonFrame
    /\ UNCHANGED <<d_forked, d_hook, d_handlers, d_sched, d_stop, s_pc>>

\* An exception leaves start: Scheduler() or run_loop outside its try
\* raises.
StartRaises ==
    /\ d_pc \in {"scheduler", "loop"}
    /\ InterpreterExits("escaped")

\* run_loop returns after scheduler.stop(); start returns True.
StartReturns ==
    /\ d_pc = "loop"
    /\ d_stop
    /\ InterpreterExits("returned")

\* What SIGTERM does to the daemon process: _handle_signal calls
\* scheduler.stop() if there is a scheduler; before the handlers are
\* installed the process ends at once, and no atexit hook runs.
Terminated ==
    IF d_handlers
    THEN /\ d_stop' = d_sched
         /\ d_pc' = d_pc
         /\ UNCHANGED <<pid_text, pid_proc, d_own>>
    ELSE /\ d_stop' = d_stop
         /\ d_pc' = "dead"
         /\ ProcessGone

\* What SIGKILL does to the daemon process.
Killed ==
    /\ d_stop' = d_stop
    /\ d_pc' = "dead"
    /\ ProcessGone

\* SIGTERM from somewhere else than Daemon.stop (kill, a shutdown).
SigTerm ==
    /\ DaemonAlive
    /\ Terminated
    /\ DaemonFrame
    /\ UNCHANGED <<d_forked, d_hook, d_handlers, d_sched, s_pc>>

\* SIGKILL from somewhere else than Daemon.stop (kill -9, the OOM killer).
SigKill ==
    /\ DaemonAlive
    /\ Killed
    /\ DaemonFrame
    /\ UNCHANGED <<d_forked, d_hook, d_handlers, d_sched, s_pc>>

\* Daemon.stop(force) up to its wait: get_pid, then os.kill(pid, sig).  An
\* OSError makes stop remove the PID file and return False.
DaemonStopSignal ==
    /\ s_pc = "idle"
    /\ \E force \in BOOLEAN :
         IF pid_text # "number" \/ pid_proc = "range"
         THEN /\ s_pc' = "done"
              /\ UNCHANGED <<pid_text, pid_proc, d_own, d_pc, d_stop>>
         ELSE IF IsOSError(pid_proc)
         THEN /\ s_pc' = "done"
              /\ RemovePid
              /\ UNCHANGED <<d_pc, d_stop>>
         ELSE /\ s_pc' = "wait"
              /\ IF d_own /\ DaemonAlive
                 THEN IF force THEN Killed ELSE Terminated
                 ELSE UNCHANGED <<pid_text, pid_proc, d_own, d_pc, d_stop>>
    /\ DaemonFrame
    /\ UNCHANGED <<d_forked, d_hook, d_handlers, d_sched>>

\* The wait of Daemon.stop is over (the process has gone, or
\* DAEMON_STOP_TIMEOUT_SECONDS have passed): self._remove_pid(); return True.
DaemonStopRemove ==
    /\ s_pc = "wait"
    /\ s_pc' = "done"
    /\ RemovePid
    /\ DaemonFrame
    /\ UNCHANGED <<d_pc, d_forked, d_hook, d_handlers, d_sched, d_stop>>

NextDaemon ==
    \/ StartIsRunning
    \/ StartDaemonize
    \/ StartWritePid
    \/ StartAtexit
    \/ StartSignals
    \/ StartScheduler
    \/ StartRaises
    \/ StartReturns
    \/ SigTerm
    \/ SigKill
    \/ DaemonStopSignal
    \/ DaemonStopRemove

SpecDaemon == InitDaemon /\ [][NextDaemon]_vars

\* C26: Daemon.start that finds a live process under the number of the PID
\* file returns False and changes nothing: the PID file is as it was,
\* nothing is forked, no handler is installed and no Scheduler is made.
C26_LiveStartRefused ==
    [][(/\ d_pc = "idle"
        /\ d_pc' # "idle"
        /\ pid_text = "number"
        /\ pid_proc \in {"live", "foreign"}) =>
          /\ d_pc' = "refused"
          /\ UNCHANGED <<pid_text, pid_proc, d_forked, d_handlers,
                         d_sched>>]_vars

\* C27: once the daemon process that wrote the PID file is gone, by
\* whatever way, and no Daemon.stop is at work, the PID file no longer holds
\* what that process wrote.
C27_PidFileRemoved ==
    (DaemonEnded /\ s_pc # "wait") => ~d_own

(* ---------------------------------------------------------------------- *)
(* Status and timestamps of the stored tasks (Spec)                       *)
(* ---------------------------------------------------------------------- *)

\* The stored record of id i.
Stored(tasks, i) == tasks[IndexOf(tasks, i)]

\* What the status of a record says of its timestamps.
C31_Consistent(t) ==
    /\ t.status = PENDING => ~t.started_at /\ ~t.completed_at
    /\ t.status = RUNNING => t.started_at /\ ~t.completed_at
    /\ t.status \in {COMPLETED, FAILED} => t.completed_at

C31_Inv == \A k \in 1..Len(store) : C31_Consistent(store[k])

\* A timestamp of a stored record changes only in its own transition:
\* started_at in pending -> running, completed_at in running -> completed
\* or failed.
C31_Step ==
    \A i \in Ids :
       (HasId(store, i) /\ HasId(store', i)) =>
          LET a == Stored(store, i)
              b == Stored(store', i)
          IN  /\ a.started_at # b.started_at =>
                   a.status = PENDING /\ b.status = RUNNING
              /\ a.completed_at # b.completed_at =>
                   a.status = RUNNING /\ b.status \in {COMPLETED, FAILED}

\* C31: in every stored task a pending status goes with no timestamp, a
\* running one with started_at alone, a completed or failed one with
\* completed_at; and no step changes a timestamp of a stored task outside
\* the status transition that the timestamp belongs to.
C31_StatusAndTimestamps == []C31_Inv /\ [][C31_Step]_vars

(* ---------------------------------------------------------------------- *)
(* The mutators of TaskStorage called by concurrent processes, with the   *)
(* open / flock / load / save / close steps of each call as separate      *)
(* steps.  A process that a claim has given a task runs the Executor and  *)
(* stores the outcome with update, as the `run` command does.             *)
(* ---------------------------------------------------------------------- *)

\* The processes that call the mutators.
MutCallers == {1, 2}

MutOps == {"add", "update", "remove", "claim_by_id", "claim_next_pending"}

\* The ids that can be stored in a run: the initial ones and one add for
\* each caller.
MutIds == 1..(MaxTasks + 2)

MutFrame ==
    UNCHANGED <<fileVars, notifyVars, daemonVars, histVars, pidVars, unitVars,
                iterVars, history, schedVars, manualVars, req_id>>

InitMut ==
    /\ \E k \in 0..MaxTasks :
         store \in {[i \in 1..k |-> StoredTask(i, PriorityOf(i), f[i])] :
                      f \in [1..k -> {PENDING, RUNNING, COMPLETED}]}
    /\ history = <<>>
    /\ next_id = Len(store) + 1
    /\ req_id = 0
    /\ config = DefaultConfig
    /\ ProcessesIdle
    /\ NothingCalled
    /\ ExtIdle

\* A process calls a mutator: it opens the lock file.  add is called with
\* a new Task, update with a task that has been completed or failed.
MutCall(c) ==
    /\ c_pc[c] = "idle"
    /\ \E op \in MutOps :
         /\ c_op' = [c_op EXCEPT ![c] = op]
         /\ IF op = "add"
            THEN /\ c_arg' = [c_arg EXCEPT ![c] = next_id]
                 /\ c_res' = [c_res EXCEPT ![c] =
                                 NewTask(next_id, PriorityOf(next_id))]
                 /\ next_id' = next_id + 1
            ELSE IF op = "update"
            THEN /\ \E i \in Ids, st \in {COMPLETED, FAILED} :
                      /\ c_arg' = [c_arg EXCEPT ![c] = i]
                      /\ c_res' = [c_res EXCEPT ![c] =
                                      StoredTask(i, PriorityOf(i), st)]
                 /\ next_id' = next_id
            ELSE IF op = "claim_next_pending"
            THEN UNCHANGED <<c_arg, c_res, next_id>>
            ELSE /\ \E i \in Ids : c_arg' = [c_arg EXCEPT ![c] = i]
                 /\ UNCHANGED <<c_res, next_id>>
    /\ c_pc' = [c_pc EXCEPT ![c] = "open"]
    /\ MutFrame
    /\ UNCHANGED <<store, lock, c_tasks>>

\* What the mutator makes of the loaded list: the list, whether it is
\* saved, and the task the call holds afterwards.
Mutated(op, tasks, t, i) ==
    IF op = "add"
    THEN [tasks |-> AddTasks(tasks, t), saved |-> TRUE, result |-> t]
    ELSE IF op = "update"
    THEN [tasks |-> UpdateTasks(tasks, t), saved |-> TRUE, result |-> t]
    ELSE IF op = "remove"
    THEN [tasks |-> RemoveTasks(tasks, i),
          saved |-> RemoveReturns(tasks, i), result |-> t]
    ELSE IF op = "claim_by_id"
    THEN ClaimById(tasks, i)
    ELSE ClaimNextPending(tasks)

\* The body of the with block after the load, _save_tasks included.
MutSave(c) ==
    /\ c_pc[c] = "loaded"
    /\ LET r == Mutated(c_op[c], c_tasks[c], c_res[c], c_arg[c])
       IN  /\ store' = IF r.saved THEN r.tasks ELSE store
           /\ c_res' = [c_res EXCEPT ![c] = r.result]
    /\ c_pc' = [c_pc EXCEPT ![c] = "saved"]
    /\ MutFrame
    /\ UNCHANGED <<next_id, lock, c_op, c_tasks, c_arg>>

\* _load_tasks or _save_tasks raises (StorageError), or the process is
\* killed in the with block: the lock file is closed, nothing is saved.
MutRaises(c) ==
    /\ c_pc[c] \in {"locked", "loaded"}
    /\ lock' = IF lock = c THEN 0 ELSE lock
    /\ c_pc' = [c_pc EXCEPT ![c] = "raised"]
    /\ MutFrame
    /\ UNCHANGED <<store, next_id, c_op, c_tasks, c_res, c_arg>>

\* The process that a claim gave a task calls the Executor.
MutExecute(c) ==
    /\ c_pc[c] = "done"
    /\ c_op[c] \in {"claim_by_id", "claim_next_pending"}
    /\ c_res[c] # NoTask
    /\ c_pc' = [c_pc EXCEPT ![c] = "executing"]
    /\ MutFrame
    /\ UNCHANGED <<store, next_id, lock, c_op, c_tasks, c_res, c_arg>>

\* The Executor returns: task.complete or task.fail, then
\* storage.update(task).
MutExecReturn(c) ==
    /\ c_pc[c] = "executing"
    /\ \E outcome \in Outcomes :
         c_res' = [c_res EXCEPT ![c] = Finished(c_res[c], outcome)]
    /\ c_op' = [c_op EXCEPT ![c] = "update"]
    /\ c_arg' = [c_arg EXCEPT ![c] = c_res[c].id]
    /\ c_pc' = [c_pc EXCEPT ![c] = "open"]
    /\ MutFrame
    /\ UNCHANGED <<store, next_id, lock, c_tasks>>

\* The steps of a call that the process takes by itself.
MutStep(c) ==
    \/ AcquireLock(c)
    \/ LoadTasks(c)
    \/ MutSave(c)
    \/ ReleaseLock(c)

NextMut ==
    \E c \in MutCallers :
        \/ MutCall(c)
        \/ MutStep(c)
        \/ MutRaises(c)
        \/ MutExecute(c)
        \/ MutExecReturn(c)

SpecMut == InitMut /\ [][NextMut]_vars

\* A process that is not stopped takes its next step; flock hands a free
\* lock to a process that waits for it.
SpecMutFair == SpecMut /\ \A c \in MutCallers : WF_vars(MutStep(c))

\* The lock is held by a process in its with block, and by no other.
C32_Inv ==
    /\ lock \in {0} \cup MutCallers
    /\ \A c \in MutCallers :
          lock = c <=> c_pc[c] \in {"locked", "loaded", "saved"}

\* flock is called by a process that does not hold the lock.
C32_Step ==
    \A c \in MutCallers :
       (c_pc[c] = "open" /\ c_pc'[c] = "locked") => lock # c

\* C32: the lock is held only from the flock of a mutator to the end of
\* its with block: it is released on every path, exceptions included, it is
\* not taken by a process that holds it, it is not held while the Executor
\* runs, and every process that waits for it gets it.
C32_LockDiscipline ==
    /\ []C32_Inv
    /\ [][C32_Step]_vars
    /\ \A c \in MutCallers : (c_pc[c] = "open") ~> (c_pc[c] = "locked")

\* One process left its with block by an exception; the other has claimed
\* a task and runs the Executor, and the lock is free.
C32_Witness ==
    /\ c_pc[1] = "raised"
    /\ c_pc[2] = "executing"
    /\ lock = 0

\* The process whose save this step is.
Saves(c) == c_pc[c] = "loaded" /\ c_pc'[c] = "saved"

\* The id that the operation of c is about.
MutTarget(c) ==
    IF c_op[c] = "claim_next_pending" THEN c_res'[c].id ELSE c_arg[c]

C33_Step ==
    /\ (\A c \in MutCallers : ~Saves(c)) => store' = store
    /\ \A c \in MutCallers :
         Saves(c) =>
           /\ c_op[c] = "add" => HasId(store', c_arg[c])
           /\ \A i \in MutIds :
                HasId(store, i) =>
                  /\ HasId(store', i) \/ (c_op[c] = "remove" /\ c_arg[c] = i)
                  /\ (HasId(store', i) /\ i # MutTarget(c)) =>
                       Stored(store', i) = Stored(store, i)

\* C33: mutators of concurrent processes lose nothing of each other: a
\* stored task stays stored until a remove of its id is saved, an added
\* task is stored, and the save of an operation on one task leaves the
\* records of the other tasks as they are.
C33_NoLostUpdate == [][C33_Step]_vars

\* Both processes have added a task and both tasks are stored behind the
\* initial ones.
C33_Witness ==
    /\ \A c \in MutCallers : c_pc[c] = "done" /\ c_op[c] = "add"
    /\ Len(store) = MaxTasks + 2

(* ---------------------------------------------------------------------- *)
(* record_execution called by two processes (the daemon and a `run`       *)
(* command) on the history file of one day: the load and the save of     *)
(* each call are separate steps, and no lock is taken.                    *)
(* ---------------------------------------------------------------------- *)

HistFrame ==
    UNCHANGED <<fileVars, notifyVars, daemonVars, mutVars, pidVars, unitVars,
                iterVars, store, next_id, schedVars, manualVars, callerVars>>

InitHistory ==
    /\ store = <<>>
    /\ history = <<>>
    /\ next_id = 1
    /\ req_id = 0
    /\ config = DefaultConfig
    /\ ProcessesIdle
    /\ NothingCalled
    /\ ExtIdle

\* DailyHistory.add_execution: the execution is appended; a completed one
\* counts in total_completed, a failed one in total_failed.
AddExecution(h, e) ==
    [executions |-> Append(h.executions, e),
     totals |->
        [total_completed |-> h.totals.total_completed +
                               (IF e.status = COMPLETED THEN 1 ELSE 0),
         total_failed |-> h.totals.total_failed +
                            (IF e.status = FAILED THEN 1 ELSE 0)]]

\* The calls of record_execution begun so far.
RecordsBegun ==
    Len(h_calls) + Cardinality({p \in FileProcs : h_pc[p] = "loaded"})

\* execution = TaskExecution.from_task(task);
\* history = self._load_daily_history(target_date)
RecordLoad(p) ==
    /\ h_pc[p] = "idle"
    /\ RecordsBegun < MaxRecords
    /\ \E i \in Ids, st \in {COMPLETED, FAILED} :
         h_exec' = [h_exec EXCEPT ![p] =
                      FromTask(StoredTask(i, PriorityOf(i), st))]
    /\ h_load' = [h_load EXCEPT ![p] =
                    [executions |-> history, totals |-> h_totals]]
    /\ h_pc' = [h_pc EXCEPT ![p] = "loaded"]
    /\ HistFrame
    /\ UNCHANGED <<history, h_totals, h_calls>>

\* history.add_execution(execution); self._save_daily_history(history)
RecordSave(p) ==
    /\ h_pc[p] = "loaded"
    /\ history' = AddExecution(h_load[p], h_exec[p]).executions
    /\ h_totals' = AddExecution(h_load[p], h_exec[p]).totals
    /\ h_calls' = Append(h_calls, h_exec[p])
    /\ h_pc' = [h_pc EXCEPT ![p] = "idle"]
    /\ HistFrame
    /\ UNCHANGED <<h_load, h_exec>>

NextHistory == \E p \in FileProcs : RecordLoad(p) \/ RecordSave(p)

SpecHistory == InitHistory /\ [][NextHistory]_vars

\* How many of the executions have the status st.
CountStatus(execs, st) ==
    Cardinality({k \in 1..Len(execs) : execs[k].status = st})

\* C34: no record of record_execution is lost when two processes call it
\* for the same day: after k calls have returned, the day's executions are
\* k, and total_completed and total_failed count the completed and the
\* failed ones among them.
C34_NoLostRecord ==
    /\ Len(history) = Len(h_calls)
    /\ h_totals.total_completed = CountStatus(h_calls, COMPLETED)
    /\ h_totals.total_failed = CountStatus(h_calls, FAILED)

(* ---------------------------------------------------------------------- *)
(* Executions and their records (Spec)                                    *)
(* ---------------------------------------------------------------------- *)

\* The records of today's history that an execution of task i has left:
\* those of the recovery belong to an execution of an earlier process.
RecordsOf(i) ==
    {k \in 1..Len(history) :
        history[k].task_id = i /\ history[k].error # ErrInterrupted}

\* The scheduler is between two calls of run_next_task.
BetweenTasks ==
    pc \in {"loop_top", "load_config", "should_run", "branch", "rnt_get",
            "wait", "exited"}

\* C35: an execution of a task leaves exactly one ExecutionRecord, and the
\* status of the record is the status that is stored for the task in the
\* end, also when force_stop fails the task and the Executor returns
\* afterwards.  Stated for the tasks that the scheduler alone has executed.
C35_OneRecordPerExecution ==
    \A i \in sched_started \ m_started :
       /\ Cardinality(RecordsOf(i)) <= 1
       /\ (BetweenTasks /\ HasId(store, i)) =>
            /\ Cardinality(RecordsOf(i)) = 1
            /\ \A k \in RecordsOf(i) : history[k].status = StatusOf(store, i)

\* The `run` command is executing the task i that it has claimed.
ManualExecutes(i) == m_pc = "executing" /\ m_task.id = i

\* C36: the recovery of a starting daemon fails only the running tasks that
\* no live process is executing: the task of a `run` command that is still
\* executing is left as it is.
C36_RecoverySparesLiveRuns ==
    [][(pc = "recover" /\ pc' = "recover_record") =>
          ~ManualExecutes(Head(rec_tasks).id)]_vars

\* run_next_task holds a task: from self._current_task = task to the
\* finally clause.
HoldsTask == pc \in {"rnt_update", "executing"}

\* C39: current_task is set only while run_next_task holds a task: once
\* run_next_task has returned or raised, at whatever step, current_task is
\* None (SpecLoop).
C39_CurrentTaskCleared == ~HoldsTask => current_task = 0

(* ---------------------------------------------------------------------- *)
(* Two `daemon start` commands and one Daemon.stop on one base directory. *)
(* The PID file holds 0 (no file) or the pid of the daemon that wrote it  *)
(* last.                                                                  *)
(* ---------------------------------------------------------------------- *)

PidFrame ==
    UNCHANGED <<progVars, fileVars, notifyVars, daemonVars, mutVars,
                histVars>>

InitPid ==
    /\ store = <<>>
    /\ history = <<>>
    /\ next_id = 1
    /\ req_id = 0
    /\ config = DefaultConfig
    /\ ProcessesIdle
    /\ NothingCalled
    /\ ExtIdle

\* os.kill(pid, 0) returns: the process of that pid exists.
PidLive(d) == p_pc[d] \in {"checked", "written", "loop"}

\* Daemon.start up to is_running(): with a live process under the pid of
\* the file start returns False; a stale file is removed.
PidStartCheck(d) ==
    /\ p_pc[d] = "idle"
    /\ IF p_file # 0 /\ PidLive(p_file)
       THEN p_pc' = [p_pc EXCEPT ![d] = "refused"] /\ p_file' = p_file
       ELSE p_pc' = [p_pc EXCEPT ![d] = "checked"] /\ p_file' = 0
    /\ PidFrame
    /\ UNCHANGED <<p_stop, p_target>>

\* _daemonize, _setup_logging, _write_pid, atexit.register, the handlers.
PidStartWrite(d) ==
    /\ p_pc[d] = "checked"
    /\ p_file' = d
    /\ p_pc' = [p_pc EXCEPT ![d] = "written"]
    /\ PidFrame
    /\ UNCHANGED <<p_stop, p_target>>

\* self.scheduler = Scheduler(); self.scheduler.run_loop()
PidRunLoop(d) ==
    /\ p_pc[d] = "written"
    /\ p_pc' = [p_pc EXCEPT ![d] = "loop"]
    /\ PidFrame
    /\ UNCHANGED <<p_file, p_stop, p_target>>

\* The daemon exits (run_loop has returned, or an exception has left
\* start): the atexit hook removes the PID file, whatever pid it holds.
PidExit(d) ==
    /\ p_pc[d] \in {"written", "loop"}
    /\ p_pc' = [p_pc EXCEPT ![d] = "gone"]
    /\ p_file' = 0
    /\ PidFrame
    /\ UNCHANGED <<p_stop, p_target>>

\* Daemon.stop(force) up to its wait.  No file: return False.  No process
\* under the pid: OSError, the file is removed.  Else the signal is sent:
\* SIGKILL ends the process, SIGTERM asks its scheduler to stop.
PidStopSignal ==
    /\ p_stop = "idle"
    /\ IF p_file = 0
       THEN p_stop' = "done" /\ UNCHANGED <<p_pc, p_file, p_target>>
       ELSE IF ~PidLive(p_file)
       THEN p_stop' = "done" /\ p_file' = 0 /\ UNCHANGED <<p_pc, p_target>>
       ELSE /\ p_stop' = "wait"
            /\ p_target' = p_file
            /\ p_file' = p_file
            /\ \E force \in BOOLEAN :
                 p_pc' = IF force THEN [p_pc EXCEPT ![p_file] = "gone"]
                         ELSE p_pc
    /\ PidFrame

\* The wait of Daemon.stop ends, because the process has gone or because
\* DAEMON_STOP_TIMEOUT_SECONDS are over: self._remove_pid(); return True.
PidStopRemove ==
    /\ p_stop = "wait"
    /\ p_stop' = "done"
    /\ p_file' = 0
    /\ PidFrame
    /\ UNCHANGED <<p_pc, p_target>>

NextPid ==
    \/ \E d \in Daemons :
          PidStartCheck(d) \/ PidStartWrite(d) \/ PidRunLoop(d) \/ PidExit(d)
    \/ PidStopSignal
    \/ PidStopRemove

SpecPid == InitPid /\ [][NextPid]_vars

\* C37: for one base directory at most one daemon process runs the
\* scheduler loop at any time, whatever the interleaving of the calls of
\* Daemon.start and Daemon.stop and of the exits of the daemons.
C37_OneDaemon == Cardinality({d \in Daemons : p_pc[d] = "loop"}) <= 1

\* C38: while a daemon process runs the scheduler loop the PID file holds
\* its pid: no stop of another process and no exit hook of another daemon
\* removes or replaces it.
C38_PidFileOfLiveDaemon == \A d \in Daemons : p_pc[d] = "loop" => p_file = d


(* ------------- SpecProgress: the daemon loop left to itself ------------- *)

\* should_run at a moment when the admission conditions hold: inside the
\* active window, a valid reading below the limit, no stop requested.  What
\* is left to decide is whether a task is pending.
ShouldRunAdmits ==
    /\ ShouldRunStep
    /\ sr'.reason \in {ReasonReady, ReasonNoTasks}

\* The daemon alone: startup recovery, run_loop and run_next_task.  Nobody
\* adds, removes or runs a task by hand, nobody stops or kills the daemon,
\* no storage call raises, and every Executor call returns.  With nobody
\* else writing the task file, the get_next_pending of run_next_task finds
\* the task should_run has just seen, so RntGetNone has no place here.
NextProgress ==
    \/ DaemonStart
    \/ RunLoopStart
    \/ RecoverList
    \/ RecoverUpdate
    \/ RecoverRecord
    \/ RecoverDone
    \/ LoopEnter
    \/ LoadConfig
    \/ ShouldRunAdmits
    \/ BranchRun
    \/ BranchSkip
    \/ RntGet
    \/ RntUpdate
    \/ ExecReturn
    \/ RntFinalUpdate
    \/ RntRecord
    \/ WaitDone
    \/ WaitSleep

\* The daemon is one thread: its next statement is always executed, and
\* the Executor call it waits for returns.
SpecProgress == Init /\ [][NextProgress]_vars /\ WF_vars(NextProgress)

\* The stored priority of task i.
StoredPriority(i) == store[IndexOf(store, i)].priority

\* The scheduler hands `task` to the Executor: no task it started earlier
\* has a larger priority number.
C40_Step ==
    (pc = "rnt_update" /\ pc' = "executing") =>
        \A j \in sched_started : StoredPriority(j) <= task.priority

====
